---- MODULE Spec2Model ----
(***************************************************************************)
(* Concurrency core of the zoom-os kernel: the cooperative executor, the   *)
(* async Mutex / IntMutex, the waker list and the timer-driven sleep       *)
(* service, on one hardware execution context preempted by interrupts.     *)
(*                                                                         *)
(* A thread is either a spawned task (1..NumTasks) or the interrupt        *)
(* handler (IRQ).  A thread runs a small program, a sequence of calls into *)
(* the kernel's primitives; every call is split into the atomic steps of   *)
(* its source so that an interrupt can arrive between any two of them.     *)
(***************************************************************************)
EXTENDS Integers, Sequences, FiniteSets, TLC

\* ---------------------------------------------------------------- bounds
NumTasks == 3
\* redundant wake-ups the environment may issue
MaxSpurious == 1
\* iterations of the acquire/release loop of the contention scenario
LoopN == 3
\* the tick counter is a usize; the model keeps it at a reduced width
TickMod == 3
\* longest sleep duration, in half tick periods
MaxDurHalf == 5

IRQ == 0
Tasks == 1..NumTasks
Threads == {IRQ} \cup Tasks

VARIABLES
  \* Executor (task/executor.rs)
  task_queue,      \* SegQueue<TaskId>: the ready queue
  spawn_queue,     \* SegQueue<Task>
  task_table,      \* keys of task_waker_list: BTreeMap<TaskId, (Task, Waker)>
  rl,              \* position of run(): admit, admit_push, pop, poll, idle,
                   \* idle_check, halted
  cur,             \* the id in hand: `id` while admitting, `task_id` while polling
  polls,           \* task -> polls of it started so far (counted up to 2)
  \* CPU
  irq,             \* an interrupt handler is running
  IFLAG,           \* the hardware interrupt-enable flag (RFLAGS.IF)
  panicked,        \* the kernel has panicked
  \* threads
  prog,            \* thread -> its program
  ip,              \* thread -> index of the call in progress
  st,              \* thread -> step inside that call
  \* Mutex (util/async/mutex.rs)
  locked,          \* Mutex.locked
  wakeup_list,     \* Mutex.wakeup_list: task -> number of its wakers recorded
  live_guards,     \* number of MutexGuards created and not yet released
  held,            \* thread -> it owns a guard
  acquisitions,    \* guards handed to tasks so far
  \* IntMutex
  enabled,         \* thread -> local `enabled` of IntMutex::try_lock
  saved,           \* thread -> field .1 of its IntMutexGuard
  \* sleep service (util/async/sleep_future.rs)
  MONOTONIC_TIME,
  WAKEUP_SERVICE,  \* tick -> sequence of wakers (<<>>: no entry)
  fut,             \* task -> its SleepFuture and what is known about it
  overflow_checks, \* the build panics on arithmetic overflow (debug profile)
  service_locked,  \* WAKEUP_SERVICE.locked, the registry's lock flag
  saved_intpt_flag, \* local of without_interrupts: interrupts were enabled
  spurious,        \* redundant wake-ups still allowed
  \* TaskId (task/mod.rs)
  NEXT_ID,         \* static NEXT_ID: AtomicU64
  issued,          \* the TaskIds returned by TaskId::new so far, in order
  \* OnceLock and Lazy (util/once.rs)
  status,          \* OnceLock.status: UNINIT, RUNNING or INIT
  inner,           \* OnceLock.inner: the value written (NoValue: uninit)
  func_runs,       \* calls of an init function made so far
  result,          \* thread -> what its last OnceLock call returned
  state,           \* OnceLock.state of src/util/once.rs: the AtomicBool
  \* handle-indexed WakerList (src/util/async/waker_list.rs)
  wl_locked,       \* WakerList.inner, the spin lock, is held
  wl_id,           \* WakerListInner.id: the next handle id
  wl_wakers,       \* WakerListInner.wakers: handle id -> task (NoWaker: absent)
  handle           \* thread -> id of the WakerListHandle it owns (NoHandle)

execVars  == <<task_queue, spawn_queue, task_table, rl, cur, polls>>
cpuVars   == <<irq, IFLAG, panicked>>
thrVars   == <<prog, ip, st>>
mutexVars == <<locked, wakeup_list, live_guards, held, acquisitions>>
intVars   == <<enabled, saved>>
regVars   == <<service_locked, saved_intpt_flag>>
sleepVars == <<MONOTONIC_TIME, WAKEUP_SERVICE, fut, overflow_checks, regVars>>
idVars    == <<NEXT_ID, issued>>
onceVars  == <<status, inner, func_runs, result, state>>
listVars  == <<wl_locked, wl_id, wl_wakers, handle>>
libVars   == <<idVars, onceVars, listVars>>
vars == <<execVars, cpuVars, thrVars, mutexVars, intVars, sleepVars, spurious,
          libVars>>

\* Option::None where the model keeps a number
NoValue == 0
NoWaker == 0 - 1
NoHandle == 0 - 1
\* TaskIds are u64; the model keeps them at a reduced width
IdMod == 4
\* handle ids are u64; the model keeps them at a reduced width
HandleMod == 4
Handles == 0..(HandleMod - 1)

\* ------------------------------------------------------------- programs
Call(name) == [op |-> name, d |-> 0]
SleepCall(d) == [op |-> "sleep", d |-> d]

RECURSIVE Repeat(_, _)
Repeat(s, n) == IF n = 0 THEN <<>> ELSE s \o Repeat(s, n - 1)

CurOp(th) == IF ip[th] <= Len(prog[th]) THEN prog[th][ip[th]].op ELSE "end"
CurArg(th) == IF ip[th] <= Len(prog[th]) THEN prog[th][ip[th]].d ELSE 0

\* the thread the CPU is executing
Running(th) ==
  /\ ~panicked
  /\ IF irq THEN th = IRQ ELSE rl = "poll" /\ th = cur

InQueue(q, t) == \E i \in 1..Len(q) : q[i] = t

\* no SleepFuture yet
NoFut == [phase |-> "none", end_tick |-> 0, registered |-> FALSE, d |-> 0,
          start |-> 0, elapsed |-> 0, regs |-> 0]

\* ------------------------------------------------------------ waker list
\* The kernel's WakerList (util/async/waker_list.rs of the kernel tree):
\* an unordered multiset of wakers; register records one more, notify_one
\* removes and invokes one of them, any one, and does nothing on an empty list.
WakerList_new == [t \in Tasks |-> 0]

WakerList_register(wl, t) == [wl EXCEPT ![t] = @ + 1]

\* the outcomes notify_one can have: the list afterwards and the ids woken
WakerList_notify_one(wl) ==
  IF \A t \in Tasks : wl[t] = 0
  THEN {[list |-> wl, woken |-> <<>>]}
  ELSE {[list |-> [wl EXCEPT ![t] = @ - 1], woken |-> <<t>>] :
          t \in {u \in Tasks : wl[u] > 0}}

\* TaskWaker::wake_task: push the id on the ready queue
TaskWaker_wake_task(q, ids) == q \o ids

\* a halted processor resumes the run loop after any interrupt
AfterInterrupt(pos) == IF pos = "halted" THEN "admit" ELSE pos

\* -------------------------------------------------------------- executor
\* task_waker_list.locked: run() is the only user of the table's lock and
\* holds it exactly while it admits spawned tasks and while it polls
TableLocked == rl \in {"admit", "admit_push", "poll"}

\* an admission that enqueues the id before the table has the entry
run_ready_tasks_admit_PushFirst ==
  /\ ~panicked /\ ~irq /\ rl \in {"admit", "admit_push"}
  /\ IF rl = "admit"
     THEN IF spawn_queue = <<>>
          THEN rl' = "pop" /\ UNCHANGED <<spawn_queue, task_table, task_queue, cur>>
          ELSE /\ spawn_queue' = Tail(spawn_queue)
               /\ cur' = Head(spawn_queue)
               /\ task_queue' = TaskWaker_wake_task(task_queue, <<Head(spawn_queue)>>)
               /\ rl' = "admit_push"
               /\ task_table' = task_table
     ELSE /\ task_table' = task_table \cup {cur}
          /\ rl' = "admit"
          /\ UNCHANGED <<spawn_queue, task_queue, cur>>
  /\ UNCHANGED <<libVars, polls, cpuVars, thrVars, mutexVars, intVars, sleepVars, spurious>>

\* run_ready_tasks, first block, under the table lock: while let Some(task) =
\* spawn_queue.pop(): insert (task, waker) under task.id, then push the id
run_ready_tasks_admit ==
  /\ ~panicked /\ ~irq /\ rl \in {"admit", "admit_push"}
  /\ IF rl = "admit"
     THEN IF spawn_queue = <<>>
          THEN rl' = "pop" /\ UNCHANGED <<spawn_queue, task_table, task_queue, cur>>
          ELSE /\ spawn_queue' = Tail(spawn_queue)
               /\ cur' = Head(spawn_queue)
               /\ task_table' = task_table \cup {Head(spawn_queue)}
               /\ rl' = "admit_push"
               /\ task_queue' = task_queue
     ELSE /\ task_queue' = TaskWaker_wake_task(task_queue, <<cur>>)
          /\ rl' = "admit"
          /\ UNCHANGED <<spawn_queue, task_table, cur>>
  /\ UNCHANGED <<libVars, polls, cpuVars, thrVars, mutexVars, intVars, sleepVars, spurious>>

\* task.poll(&mut context) is called once more: polls counts the polls of
\* each task, up to two
CountPoll(t) == [polls EXCEPT ![t] = IF @ < 2 THEN @ + 1 ELSE @]

\* a pop loop that polls whatever id it pops
run_ready_tasks_pop_NoLookup ==
  /\ ~panicked /\ ~irq /\ rl = "pop"
  /\ IF task_queue = <<>>
     THEN /\ rl' = "idle"
          /\ UNCHANGED <<task_queue, cur, polls, task_table>>
     ELSE /\ task_queue' = Tail(task_queue)
          /\ IF TRUE
             THEN /\ rl' = "poll" /\ cur' = Head(task_queue)
                  /\ polls' = CountPoll(Head(task_queue))
                  /\ task_table' = task_table
             ELSE /\ rl' = "pop" /\ cur' = cur
                  /\ polls' = polls
                  /\ task_table' = task_table
  /\ UNCHANGED <<libVars, spawn_queue, cpuVars, thrVars, mutexVars, intVars,
                 sleepVars, spurious>>

\* a pop loop that is entered again while a poll is in progress
run_ready_tasks_pop_Reentrant ==
  /\ ~panicked /\ ~irq /\ rl \in {"pop", "poll"}
  /\ IF task_queue = <<>>
     THEN /\ rl' = "idle"
          /\ UNCHANGED <<task_queue, cur, polls, task_table>>
     ELSE /\ task_queue' = Tail(task_queue)
          /\ IF Head(task_queue) \in task_table
             THEN /\ rl' = "poll" /\ cur' = Head(task_queue)
                  /\ polls' = CountPoll(Head(task_queue))
                  /\ task_table' = task_table
             ELSE /\ rl' = "pop" /\ cur' = cur
                  /\ polls' = polls
                  /\ task_table' = task_table
  /\ UNCHANGED <<libVars, spawn_queue, cpuVars, thrVars, mutexVars, intVars,
                 sleepVars, spurious>>

\* a pop loop that takes the task out of the table to poll it
run_ready_tasks_pop_Remove ==
  /\ ~panicked /\ ~irq /\ rl = "pop"
  /\ IF task_queue = <<>>
     THEN /\ rl' = "idle"
          /\ UNCHANGED <<task_queue, cur, polls, task_table>>
     ELSE /\ task_queue' = Tail(task_queue)
          /\ IF Head(task_queue) \in task_table
             THEN /\ rl' = "poll" /\ cur' = Head(task_queue)
                  /\ polls' = CountPoll(Head(task_queue))
                  /\ task_table' = task_table \ {Head(task_queue)}
             ELSE /\ rl' = "pop" /\ cur' = cur
                  /\ polls' = polls
                  /\ task_table' = task_table
  /\ UNCHANGED <<libVars, spawn_queue, cpuVars, thrVars, mutexVars, intVars,
                 sleepVars, spurious>>

\* run_ready_tasks, the pop loop: an empty queue ends the pass, an id with no
\* table entry is skipped, any other id is polled (the entry stays in the
\* table while it is polled)
run_ready_tasks_pop ==
  /\ ~panicked /\ ~irq /\ rl = "pop"
  /\ IF task_queue = <<>>
     THEN /\ rl' = "idle"
          /\ UNCHANGED <<task_queue, cur, polls, task_table>>
     ELSE /\ task_queue' = Tail(task_queue)
          /\ IF Head(task_queue) \in task_table
             THEN /\ rl' = "poll" /\ cur' = Head(task_queue)
                  /\ polls' = CountPoll(Head(task_queue))
                  /\ task_table' = task_table
             ELSE /\ rl' = "pop" /\ cur' = cur
                  /\ polls' = polls
                  /\ task_table' = task_table
  /\ UNCHANGED <<libVars, spawn_queue, cpuVars, thrVars, mutexVars, intVars,
                 sleepVars, spurious>>

\* a run loop that keeps the entry of a task that reported completion
run_ready_tasks_ready_NoRemove ==
  /\ ~panicked /\ ~irq /\ rl = "poll"
  /\ CurOp(cur) = "end"
  /\ task_table' = task_table
  /\ rl' = "pop"
  /\ fut' = [fut EXCEPT ![cur] = NoFut]
  /\ UNCHANGED <<libVars, task_queue, spawn_queue, cur, cpuVars, thrVars, mutexVars,
                 intVars, MONOTONIC_TIME, WAKEUP_SERVICE, overflow_checks,
                 regVars, spurious, polls>>

\* run_ready_tasks, Poll::Ready(()): the task leaves the table and is
\* dropped, its futures with it
run_ready_tasks_ready ==
  /\ ~panicked /\ ~irq /\ rl = "poll"
  /\ CurOp(cur) = "end"
  /\ task_table' = task_table \ {cur}
  /\ rl' = "pop"
  /\ fut' = [fut EXCEPT ![cur] = NoFut]
  /\ UNCHANGED <<libVars, task_queue, spawn_queue, cur, cpuVars, thrVars, mutexVars,
                 intVars, MONOTONIC_TIME, WAKEUP_SERVICE, overflow_checks,
                 regVars, spurious, polls>>

\* an idle step that tests the queue first and then halts without looking
\* again: interrupts stay enabled between the test and the halt
sleep_if_idle_CheckThenHalt ==
  /\ ~panicked /\ ~irq /\ rl \in {"idle", "idle_check"}
  /\ IF rl = "idle"
     THEN IFLAG' = IFLAG
          /\ rl' = (IF task_queue = <<>> THEN "idle_check" ELSE "admit")
     ELSE IFLAG' = TRUE /\ rl' = "halted"
  /\ UNCHANGED <<libVars, task_queue, spawn_queue, task_table, cur, irq, panicked,
                 thrVars, mutexVars, intVars, sleepVars, spurious, polls>>

\* sleep_if_idle: disable, test the queue, then enable_and_hlt or enable
sleep_if_idle ==
  /\ ~panicked /\ ~irq /\ rl \in {"idle", "idle_check"}
  /\ IF rl = "idle"
     THEN IFLAG' = FALSE /\ rl' = "idle_check"
     ELSE IFLAG' = TRUE /\ rl' = (IF task_queue = <<>> THEN "halted" ELSE "admit")
  /\ UNCHANGED <<libVars, task_queue, spawn_queue, task_table, cur, irq, panicked,
                 thrVars, mutexVars, intVars, sleepVars, spurious, polls>>

\* ----------------------------------------------------------- interrupts
\* an interrupt gate: taken only with IF set, runs with IF clear to the end
IrqProgs == {<<Call("try"), Call("unlock")>>, <<Call("spin"), Call("unlock")>>}

IrqEnter(progs) ==
  /\ ~panicked /\ ~irq /\ IFLAG
  /\ \E p \in progs : prog' = [prog EXCEPT ![IRQ] = p]
  /\ irq' = TRUE /\ IFLAG' = FALSE
  /\ ip' = [ip EXCEPT ![IRQ] = 1]
  /\ st' = [st EXCEPT ![IRQ] = "start"]
  /\ UNCHANGED <<libVars, execVars, panicked, mutexVars, intVars, sleepVars, spurious>>

IrqReturn ==
  /\ ~panicked /\ irq /\ CurOp(IRQ) = "end"
  /\ irq' = FALSE /\ IFLAG' = TRUE
  /\ rl' = AfterInterrupt(rl)
  /\ prog' = [prog EXCEPT ![IRQ] = <<>>]
  /\ ip' = [ip EXCEPT ![IRQ] = 1]
  /\ st' = st
  /\ UNCHANGED <<libVars, task_queue, spawn_queue, task_table, cur, panicked,
                 mutexVars, intVars, sleepVars, spurious, polls>>

\* a waker invoked once more than needed, from interrupt context
SpuriousWake ==
  /\ ~panicked /\ ~irq /\ IFLAG /\ spurious > 0
  /\ \E t \in task_table : task_queue' = TaskWaker_wake_task(task_queue, <<t>>)
  /\ spurious' = spurious - 1
  /\ rl' = AfterInterrupt(rl)
  /\ UNCHANGED <<libVars, spawn_queue, task_table, cur, cpuVars, thrVars, mutexVars,
                 intVars, sleepVars, polls>>

\* ---------------------------------------------------------------- Mutex
Goto(th, i, s) ==
  /\ ip' = [ip EXCEPT ![th] = i]
  /\ st' = [st EXCEPT ![th] = s]
  /\ prog' = prog

Advance(th) == Goto(th, ip[th] + 1, "start")

IntOps == {"ilock", "itry", "ispin"}
TryOps == {"lock", "try", "spin"} \cup IntOps

\* the steps at which a thread is inside Mutex::try_lock
TryStates(th) ==
  IF CurOp(th) \in {"try", "spin"} THEN {"start", "try_load", "try_cas"}
  ELSE {"try_load", "try_cas"}

\* where the caller goes on when try_lock returned None / Some(guard)
AfterNone(th) ==
  IF CurOp(th) \in IntOps THEN Goto(th, ip[th], "itry_none")
  ELSE IF CurOp(th) = "try" THEN Advance(th)
  ELSE Goto(th, ip[th], "start")

AfterSome(th) ==
  IF CurOp(th) \in IntOps THEN Goto(th, ip[th], "itry_some") ELSE Advance(th)

\* a try_lock that swaps the flag to true without looking at what it was
Mutex_try_lock_Blind(th) ==
  /\ Running(th)
  /\ CurOp(th) \in TryOps /\ st[th] \in TryStates(th)
  /\ IF st[th] # "try_cas"
     THEN /\ Goto(th, ip[th], "try_cas")
          /\ UNCHANGED mutexVars
     ELSE /\ locked' = TRUE
          /\ live_guards' = live_guards + 1
          /\ held' = [held EXCEPT ![th] = TRUE]
          /\ acquisitions' = acquisitions + (IF th \in Tasks THEN 1 ELSE 0)
          /\ wakeup_list' = wakeup_list
          /\ AfterSome(th)
  /\ UNCHANGED <<libVars, execVars, cpuVars, intVars, sleepVars, spurious>>

\* a try_lock that clears the flag when it finds it set
Mutex_try_lock_ClearOnFail(th) ==
  /\ Running(th)
  /\ CurOp(th) \in TryOps /\ st[th] \in TryStates(th)
  /\ IF st[th] # "try_cas"
     THEN /\ IF locked THEN AfterNone(th) ELSE Goto(th, ip[th], "try_cas")
          /\ locked' = FALSE
          /\ UNCHANGED <<wakeup_list, live_guards, held, acquisitions>>
     ELSE IF ~locked
          THEN /\ locked' = TRUE
               /\ live_guards' = live_guards + 1
               /\ held' = [held EXCEPT ![th] = TRUE]
               /\ acquisitions' = acquisitions + (IF th \in Tasks THEN 1 ELSE 0)
               /\ wakeup_list' = wakeup_list
               /\ AfterSome(th)
          ELSE /\ AfterNone(th)
               /\ UNCHANGED mutexVars
  /\ UNCHANGED <<libVars, execVars, cpuVars, intVars, sleepVars, spurious>>

\* Mutex::try_lock: load the flag, then compare_exchange(false, true)
Mutex_try_lock(th) ==
  /\ Running(th)
  /\ CurOp(th) \in TryOps /\ st[th] \in TryStates(th)
  /\ IF st[th] # "try_cas"
     THEN /\ IF locked THEN AfterNone(th) ELSE Goto(th, ip[th], "try_cas")
          /\ UNCHANGED mutexVars
     ELSE IF ~locked
          THEN /\ locked' = TRUE
               /\ live_guards' = live_guards + 1
               /\ held' = [held EXCEPT ![th] = TRUE]
               /\ acquisitions' = acquisitions + (IF th \in Tasks THEN 1 ELSE 0)
               /\ wakeup_list' = wakeup_list
               /\ AfterSome(th)
          ELSE /\ AfterNone(th)
               /\ UNCHANGED mutexVars
  /\ UNCHANGED <<libVars, execVars, cpuVars, intVars, sleepVars, spurious>>

\* a poll that is pending while locked without leaving its waker behind
MutexLocker_poll_NoRegister(th) ==
  /\ Running(th) /\ th \in Tasks
  /\ CurOp(th) \in {"lock", "ilock"} /\ st[th] \in {"start", "parked"}
  /\ IF locked
     THEN /\ Goto(th, ip[th], "parked")
          /\ rl' = "pop"
     ELSE /\ Goto(th, ip[th], IF CurOp(th) = "lock" THEN "try_load" ELSE "itry_enter")
          /\ rl' = rl
  /\ UNCHANGED <<libVars, task_queue, spawn_queue, task_table, cur, cpuVars, mutexVars,
                 intVars, sleepVars, spurious, polls>>

\* a poll that is pending whatever the flag says
MutexLocker_poll_AlwaysPending(th) ==
  /\ Running(th) /\ th \in Tasks
  /\ CurOp(th) \in {"lock", "ilock"} /\ st[th] \in {"start", "parked"}
  /\ wakeup_list' = WakerList_register(wakeup_list, th)
  /\ Goto(th, ip[th], "parked")
  /\ rl' = "pop"
  /\ UNCHANGED <<libVars, task_queue, spawn_queue, task_table, cur, cpuVars, locked,
                 live_guards, held, acquisitions, intVars, sleepVars, spurious, polls>>

\* MutexLocker::poll: pending, with the waker registered, while locked
MutexLocker_poll(th) ==
  /\ Running(th) /\ th \in Tasks
  /\ CurOp(th) \in {"lock", "ilock"} /\ st[th] \in {"start", "parked"}
  /\ IF locked
     THEN /\ wakeup_list' = WakerList_register(wakeup_list, th)
          /\ Goto(th, ip[th], "parked")
          /\ rl' = "pop"
     ELSE /\ Goto(th, ip[th], IF CurOp(th) = "lock" THEN "try_load" ELSE "itry_enter")
          /\ UNCHANGED <<wakeup_list, rl>>
  /\ UNCHANGED <<libVars, task_queue, spawn_queue, task_table, cur, cpuVars, locked,
                 live_guards, held, acquisitions, intVars, sleepVars, spurious, polls>>

DropStates(th) ==
  IF CurOp(th) = "unlock" THEN {"start", "notify"} ELSE {"drop_store", "notify"}

\* a drop that notifies but leaves the flag set
MutexGuard_drop_NoStore(th) ==
  /\ Running(th)
  /\ CurOp(th) \in {"unlock", "iunlock"} /\ st[th] \in DropStates(th)
  /\ IF st[th] # "notify"
     THEN /\ IF held[th]
             THEN /\ live_guards' = live_guards - 1
                  /\ held' = [held EXCEPT ![th] = FALSE]
                  /\ Goto(th, ip[th], "notify")
             ELSE /\ Advance(th)
                  /\ UNCHANGED <<live_guards, held>>
          /\ UNCHANGED <<locked, wakeup_list, task_queue>>
     ELSE /\ \E r \in WakerList_notify_one(wakeup_list) :
               /\ wakeup_list' = r.list
               /\ task_queue' = TaskWaker_wake_task(task_queue, r.woken)
          /\ Advance(th)
          /\ UNCHANGED <<locked, live_guards, held>>
  /\ UNCHANGED <<libVars, spawn_queue, task_table, rl, cur, cpuVars, acquisitions,
                 intVars, sleepVars, spurious, polls>>

\* a drop that calls notify_one first and clears the flag afterwards
MutexGuard_drop_NotifyFirst(th) ==
  /\ Running(th)
  /\ CurOp(th) \in {"unlock", "iunlock"} /\ st[th] \in DropStates(th)
  /\ IF st[th] # "notify"
     THEN /\ IF held[th]
             THEN /\ \E r \in WakerList_notify_one(wakeup_list) :
                       /\ wakeup_list' = r.list
                       /\ task_queue' = TaskWaker_wake_task(task_queue, r.woken)
                  /\ Goto(th, ip[th], "notify")
             ELSE /\ Advance(th)
                  /\ UNCHANGED <<wakeup_list, task_queue>>
          /\ UNCHANGED <<locked, live_guards, held>>
     ELSE /\ locked' = FALSE
          /\ live_guards' = live_guards - 1
          /\ held' = [held EXCEPT ![th] = FALSE]
          /\ Advance(th)
          /\ UNCHANGED <<wakeup_list, task_queue>>
  /\ UNCHANGED <<libVars, spawn_queue, task_table, rl, cur, cpuVars, acquisitions,
                 intVars, sleepVars, spurious, polls>>

\* MutexGuard::drop: store false, then notify_one.  A thread that holds no
\* guard (its try_lock returned None) has nothing to drop.
MutexGuard_drop(th) ==
  /\ Running(th)
  /\ CurOp(th) \in {"unlock", "iunlock"} /\ st[th] \in DropStates(th)
  /\ IF st[th] # "notify"
     THEN /\ IF held[th]
             THEN /\ locked' = FALSE
                  /\ live_guards' = live_guards - 1
                  /\ held' = [held EXCEPT ![th] = FALSE]
                  /\ Goto(th, ip[th], "notify")
             ELSE /\ Advance(th)
                  /\ UNCHANGED <<locked, live_guards, held>>
          /\ UNCHANGED <<wakeup_list, task_queue>>
     ELSE /\ \E r \in WakerList_notify_one(wakeup_list) :
               /\ wakeup_list' = r.list
               /\ task_queue' = TaskWaker_wake_task(task_queue, r.woken)
          /\ Advance(th)
          /\ UNCHANGED <<locked, live_guards, held>>
  /\ UNCHANGED <<libVars, spawn_queue, task_table, rl, cur, cpuVars, acquisitions,
                 intVars, sleepVars, spurious, polls>>

\* a yield whose first poll is pending without waking the task
yield_now_NoWake(th) ==
  /\ Running(th) /\ th \in Tasks
  /\ CurOp(th) = "yield"
  /\ IF st[th] = "start"
     THEN /\ task_queue' = task_queue
          /\ Goto(th, ip[th], "yielded")
          /\ rl' = "pop"
     ELSE /\ Advance(th)
          /\ UNCHANGED <<task_queue, rl>>
  /\ UNCHANGED <<libVars, spawn_queue, task_table, cur, cpuVars, mutexVars, intVars,
                 sleepVars, spurious, polls>>

\* yield_now: the first poll wakes the task itself and is pending, the second
\* is ready
yield_now(th) ==
  /\ Running(th) /\ th \in Tasks
  /\ CurOp(th) = "yield"
  /\ IF st[th] = "start"
     THEN /\ task_queue' = TaskWaker_wake_task(task_queue, <<th>>)
          /\ Goto(th, ip[th], "yielded")
          /\ rl' = "pop"
     ELSE /\ Advance(th)
          /\ UNCHANGED <<task_queue, rl>>
  /\ UNCHANGED <<libVars, spawn_queue, task_table, cur, cpuVars, mutexVars, intVars,
                 sleepVars, spurious, polls>>

\* -------------------------------------------------------------- IntMutex
\* IntMutex::try_lock around the inner Mutex::try_lock.
\*   entry:     enabled = are_enabled(); if enabled { disable() }
\*   itry_some: the guard is built as IntMutexGuard(mg, are_enabled()), the
\*              flag being read at this point, after the disable above
\*   itry_none: if enabled { enable() }; try_lock returns None, lock() goes
\*              back to its MutexLocker and spin_lock to its next round
IntTryStates(th) ==
  IF CurOp(th) = "ilock" THEN {"itry_enter", "itry_some", "itry_none"}
  ELSE {"start", "itry_some", "itry_none"}

\* a try_lock that leaves interrupts disabled when it fails
IntMutex_try_lock_NoRestore(th) ==
  /\ Running(th)
  /\ CurOp(th) \in IntOps
  /\ st[th] \in IntTryStates(th)
  /\ IF st[th] \in {"start", "itry_enter"}
     THEN /\ enabled' = [enabled EXCEPT ![th] = IFLAG]
          /\ IFLAG' = FALSE
          /\ saved' = saved
          /\ Goto(th, ip[th], "try_load")
     ELSE IF st[th] = "itry_some"
     THEN /\ saved' = [saved EXCEPT ![th] = IFLAG]
          /\ UNCHANGED <<enabled, IFLAG>>
          /\ Advance(th)
     ELSE /\ IFLAG' = IFLAG
          /\ UNCHANGED <<enabled, saved>>
          /\ IF CurOp(th) = "itry" THEN Advance(th) ELSE Goto(th, ip[th], "start")
  /\ UNCHANGED <<libVars, execVars, irq, panicked, mutexVars, sleepVars, spurious>>

IntMutex_try_lock(th) ==
  /\ Running(th)
  /\ CurOp(th) \in IntOps
  /\ st[th] \in IntTryStates(th)
  /\ IF st[th] \in {"start", "itry_enter"}
     THEN /\ enabled' = [enabled EXCEPT ![th] = IFLAG]
          /\ IFLAG' = FALSE
          /\ saved' = saved
          /\ Goto(th, ip[th], "try_load")
     ELSE IF st[th] = "itry_some"
     THEN /\ saved' = [saved EXCEPT ![th] = IFLAG]
          /\ UNCHANGED <<enabled, IFLAG>>
          /\ Advance(th)
     ELSE /\ IFLAG' = (IF enabled[th] THEN TRUE ELSE IFLAG)
          /\ UNCHANGED <<enabled, saved>>
          /\ IF CurOp(th) = "itry" THEN Advance(th) ELSE Goto(th, ip[th], "start")
  /\ UNCHANGED <<libVars, execVars, irq, panicked, mutexVars, sleepVars, spurious>>

\* IntMutexGuard::drop: if self.1 { enable() }; the MutexGuard field is
\* dropped after it.  A thread whose try_lock returned None has no guard.
IntMutexGuard_drop(th) ==
  /\ Running(th)
  /\ CurOp(th) = "iunlock" /\ st[th] = "start"
  /\ IF held[th]
     THEN /\ IFLAG' = (IF saved[th] THEN TRUE ELSE IFLAG)
          /\ Goto(th, ip[th], "drop_store")
     ELSE /\ IFLAG' = IFLAG
          /\ Advance(th)
  /\ UNCHANGED <<libVars, execVars, irq, panicked, mutexVars, intVars, sleepVars, spurious>>

\* -------------------------------------------------------- sleep service
\* the registry is a BTreeMap keyed by Reverse(tick): its keys in map order
\* are the ticks in descending order
Keys(service) == {k \in DOMAIN service : service[k] # <<>>}
MaxOf(S) == CHOOSE x \in S : \A y \in S : y <= x
MinOf(S) == CHOOSE x \in S : \A y \in S : x <= y

\* the wakers of the entries `ks`, in map order (descending tick)
RECURSIVE WakersOf(_, _)
WakersOf(service, ks) ==
  IF ks = {} THEN <<>>
  ELSE service[MaxOf(ks)] \o WakersOf(service, ks \ {MaxOf(ks)})

\* register_sleep: entry(Reverse(tick)).or_default().push(waker), with
\* interrupts off and the registry lock taken for the whole call
register_sleep(service, tick, waker) ==
  [service EXCEPT ![tick] = Append(@, waker)]

\* a wake_sleep that invokes only the first waker of each due entry and
\* leaves the others registered
wake_sleep_HeadOnly(service, tick) ==
  IF Keys(service) # {} /\ MaxOf(Keys(service)) > tick
  THEN [service |-> service, woken |-> <<>>]
  ELSE LET done == {k \in Keys(service) : k <= tick} IN
       [service |-> [k \in DOMAIN service |->
                       IF k \in done THEN Tail(service[k]) ELSE service[k]],
        woken |-> WakersOf([k \in DOMAIN service |->
                              IF k \in done THEN <<Head(service[k])>>
                              ELSE <<>>], done)]

\* wake_sleep: return at once when the first key of the map (the largest
\* tick) is above `tick`; otherwise split_off(&Reverse(tick)) takes every
\* entry with a tick <= `tick` out and each of its wakers is invoked
wake_sleep(service, tick) ==
  IF Keys(service) # {} /\ MaxOf(Keys(service)) > tick
  THEN [service |-> service, woken |-> <<>>]
  ELSE LET done == {k \in Keys(service) : k <= tick} IN
       [service |-> [k \in DOMAIN service |->
                       IF k \in done THEN <<>> ELSE service[k]],
        woken |-> WakersOf(service, done)]

\* ticks seen by the sleeps in progress; the count stops at TickMod
Tick(f) == IF f.phase = "active" /\ f.elapsed < TickMod
           THEN [f EXCEPT !.elapsed = @ + 1] ELSE f

\* a handler that hands the incremented counter on
HandlerTick_New(old) == (old + 1) % TickMod

\* curr_time = MONOTONIC_TIME.fetch_add(1): fetch_add yields the value the
\* counter had before the increment
HandlerTick(old) == old

\* a wake_sleep that goes on without having the lock
wake_sleep_entry_NoCheck(lock_held, service, tick) ==
  [panic |-> FALSE,
   service |-> wake_sleep(service, tick).service,
   woken |-> wake_sleep(service, tick).woken]

\* wake_sleep from its first line: WAKEUP_SERVICE.try_lock().expect(..)
\* panics when the lock is held; otherwise the body runs under the lock and
\* the guard is dropped on return
wake_sleep_entry(lock_held, service, tick) ==
  IF lock_held
  THEN [panic |-> TRUE, service |-> service, woken |-> <<>>]
  ELSE [panic |-> FALSE,
        service |-> wake_sleep(service, tick).service,
        woken |-> wake_sleep(service, tick).woken]

\* clock_interrupt_handler (an interrupt gate, it runs to its end with
\* interrupts off): fetch_add(1), then wake_sleep(curr_time)
clock_interrupt_handler ==
  /\ ~panicked /\ ~irq /\ IFLAG
  /\ LET curr_time == HandlerTick(MONOTONIC_TIME)
         r == wake_sleep_entry(service_locked, WAKEUP_SERVICE, curr_time) IN
       /\ MONOTONIC_TIME' = (MONOTONIC_TIME + 1) % TickMod
       /\ WAKEUP_SERVICE' = r.service
       /\ task_queue' = TaskWaker_wake_task(task_queue, r.woken)
       /\ panicked' = r.panic
  /\ fut' = [t \in Tasks |-> Tick(fut[t])]
  /\ rl' = AfterInterrupt(rl)
  /\ UNCHANGED <<libVars, spawn_queue, task_table, cur, polls, irq, IFLAG, thrVars,
                 mutexVars, intVars, overflow_checks, regVars, spurious>>

\* duration -> ticks: as_secs_f64() * TIMER_FREQ, cast to usize (truncated).
\* Durations are counted in half tick periods.
TruncTicks(d) == d \div 2
CeilTicks(d) == (d + 1) \div 2

\* a conversion that takes two ticks off instead of one
SleepTicks_MinusTwo(d) == (TruncTicks(d) + TickMod - 2) % TickMod

\* `ticks as usize - 1` where the subtraction wraps
SleepTicks(d) == (TruncTicks(d) + TickMod - 1) % TickMod

\* SleepFuture::new: ticks - 1 on a usize panics on underflow when the build
\* checks overflow and wraps otherwise; end_tick = start.wrapping_add(ticks)
SleepFuture_new(th) ==
  /\ Running(th) /\ th \in Tasks
  /\ CurOp(th) = "sleep" /\ st[th] = "start"
  /\ IF TruncTicks(CurArg(th)) = 0 /\ overflow_checks
     THEN /\ panicked' = TRUE
          /\ UNCHANGED <<fut, thrVars>>
     ELSE /\ LET ticks == SleepTicks(CurArg(th))
                 start == MONOTONIC_TIME IN
               fut' = [fut EXCEPT ![th] =
                         [phase |-> "active",
                          end_tick |-> (start + ticks) % TickMod,
                          registered |-> FALSE, d |-> CurArg(th),
                          start |-> start, elapsed |-> 0, regs |-> 0]]
          /\ Goto(th, ip[th], "poll")
          /\ panicked' = panicked
  /\ UNCHANGED <<libVars, execVars, irq, IFLAG, mutexVars, intVars, MONOTONIC_TIME,
                 WAKEUP_SERVICE, overflow_checks, regVars, spurious>>

\* a register_sleep that takes the registry lock with interrupts as they are
register_sleep_steps_IntsOn(th) ==
  /\ Running(th) /\ th \in Tasks
  /\ CurOp(th) = "sleep"
  /\ st[th] \in {"register", "reg_lock", "reg_push", "reg_unlock"}
  /\ IF st[th] = "register"
     THEN /\ saved_intpt_flag' = IFLAG
          /\ IFLAG' = IFLAG
          /\ Goto(th, ip[th], "reg_lock")
          /\ UNCHANGED <<service_locked, WAKEUP_SERVICE, fut>>
     ELSE IF st[th] = "reg_lock"
     THEN /\ service_locked' = TRUE
          /\ IF service_locked THEN UNCHANGED thrVars
             ELSE Goto(th, ip[th], "reg_push")
          /\ UNCHANGED <<saved_intpt_flag, IFLAG, WAKEUP_SERVICE, fut>>
     ELSE IF st[th] = "reg_push"
     THEN /\ WAKEUP_SERVICE' =
               register_sleep(WAKEUP_SERVICE, fut[th].end_tick, th)
          /\ fut' = [fut EXCEPT ![th].regs = @ + 1]
          /\ Goto(th, ip[th], "reg_unlock")
          /\ UNCHANGED <<regVars, IFLAG>>
     ELSE /\ service_locked' = FALSE
          /\ IFLAG' = (IF saved_intpt_flag THEN TRUE ELSE IFLAG)
          /\ Goto(th, ip[th], "reg_done")
          /\ UNCHANGED <<saved_intpt_flag, WAKEUP_SERVICE, fut>>
  /\ UNCHANGED <<libVars, execVars, irq, panicked, mutexVars, intVars, MONOTONIC_TIME,
                 overflow_checks, spurious>>

\* the call register_sleep(end_tick, waker), step by step:
\*   register:   without_interrupts saves the flag and disables
\*   reg_lock:   WAKEUP_SERVICE.spin_lock(), spinning while the lock is held
\*   reg_push:   entry(Reverse(tick)).or_default().push(waker)
\*   reg_unlock: the guard is dropped, then the saved flag is restored
register_sleep_steps(th) ==
  /\ Running(th) /\ th \in Tasks
  /\ CurOp(th) = "sleep"
  /\ st[th] \in {"register", "reg_lock", "reg_push", "reg_unlock"}
  /\ IF st[th] = "register"
     THEN /\ saved_intpt_flag' = IFLAG
          /\ IFLAG' = FALSE
          /\ Goto(th, ip[th], "reg_lock")
          /\ UNCHANGED <<service_locked, WAKEUP_SERVICE, fut>>
     ELSE IF st[th] = "reg_lock"
     THEN /\ service_locked' = TRUE
          /\ IF service_locked THEN UNCHANGED thrVars
             ELSE Goto(th, ip[th], "reg_push")
          /\ UNCHANGED <<saved_intpt_flag, IFLAG, WAKEUP_SERVICE, fut>>
     ELSE IF st[th] = "reg_push"
     THEN /\ WAKEUP_SERVICE' =
               register_sleep(WAKEUP_SERVICE, fut[th].end_tick, th)
          /\ fut' = [fut EXCEPT ![th].regs = @ + 1]
          /\ Goto(th, ip[th], "reg_unlock")
          /\ UNCHANGED <<regVars, IFLAG>>
     ELSE /\ service_locked' = FALSE
          /\ IFLAG' = (IF saved_intpt_flag THEN TRUE ELSE IFLAG)
          /\ Goto(th, ip[th], "reg_done")
          /\ UNCHANGED <<saved_intpt_flag, WAKEUP_SERVICE, fut>>
  /\ UNCHANGED <<libVars, execVars, irq, panicked, mutexVars, intVars, MONOTONIC_TIME,
                 overflow_checks, spurious>>

\* a poll that never answers ready before it has registered
SleepFuture_poll_RegisterFirst(th) ==
  /\ Running(th) /\ th \in Tasks
  /\ CurOp(th) = "sleep" /\ st[th] \in {"poll", "reg_done"}
  /\ IF st[th] = "poll" /\ fut[th].registered /\ MONOTONIC_TIME >= fut[th].end_tick
     THEN /\ Advance(th)
          /\ fut' = [fut EXCEPT ![th].phase = "resumed"]
          /\ rl' = rl
     ELSE IF st[th] = "poll" /\ ~fut[th].registered
     THEN /\ Goto(th, ip[th], "register")
          /\ UNCHANGED <<fut, rl>>
     ELSE /\ fut' = [fut EXCEPT ![th].registered = TRUE]
          /\ Goto(th, ip[th], "poll")
          /\ rl' = "pop"
  /\ UNCHANGED <<libVars, task_queue, spawn_queue, task_table, cur, polls, cpuVars,
                 mutexVars, intVars, MONOTONIC_TIME, WAKEUP_SERVICE,
                 overflow_checks, regVars, spurious>>

\* a poll that forgets it has registered
SleepFuture_poll_NoFlag(th) ==
  /\ Running(th) /\ th \in Tasks
  /\ CurOp(th) = "sleep" /\ st[th] \in {"poll", "reg_done"}
  /\ IF st[th] = "poll" /\ MONOTONIC_TIME >= fut[th].end_tick
     THEN /\ Advance(th)
          /\ fut' = [fut EXCEPT ![th].phase = "resumed"]
          /\ rl' = rl
     ELSE IF st[th] = "poll" /\ ~fut[th].registered
     THEN /\ Goto(th, ip[th], "register")
          /\ UNCHANGED <<fut, rl>>
     ELSE /\ fut' = [fut EXCEPT ![th].registered = FALSE]
          /\ Goto(th, ip[th], "poll")
          /\ rl' = "pop"
  /\ UNCHANGED <<libVars, task_queue, spawn_queue, task_table, cur, polls, cpuVars,
                 mutexVars, intVars, MONOTONIC_TIME, WAKEUP_SERVICE,
                 overflow_checks, regVars, spurious>>

\* SleepFuture::poll: load the counter; ready when it has reached end_tick;
\* otherwise call register_sleep unless registered, set registered (step
\* reg_done, after the call) and stay pending
SleepFuture_poll(th) ==
  /\ Running(th) /\ th \in Tasks
  /\ CurOp(th) = "sleep" /\ st[th] \in {"poll", "reg_done"}
  /\ IF st[th] = "poll" /\ MONOTONIC_TIME >= fut[th].end_tick
     THEN /\ Advance(th)
          /\ fut' = [fut EXCEPT ![th].phase = "resumed"]
          /\ rl' = rl
     ELSE IF st[th] = "poll" /\ ~fut[th].registered
     THEN /\ Goto(th, ip[th], "register")
          /\ UNCHANGED <<fut, rl>>
     ELSE /\ fut' = [fut EXCEPT ![th].registered = TRUE]
          /\ Goto(th, ip[th], "poll")
          /\ rl' = "pop"
  /\ UNCHANGED <<libVars, task_queue, spawn_queue, task_table, cur, polls, cpuVars,
                 mutexVars, intVars, MONOTONIC_TIME, WAKEUP_SERVICE,
                 overflow_checks, regVars, spurious>>

\* ------------------------------------------------- specification: Mutex
\* Tasks and an interrupt handler share one Mutex through try_lock, lock,
\* spin_lock and guard drops; a task may keep its guard across a suspension.
MutexProgs ==
  { <<Call("lock"), Call("yield"), Call("unlock")>>,
    <<Call("try"), Call("yield"), Call("unlock")>>,
    <<Call("spin"), Call("unlock")>> }

\* what a call on the OnceLock returned: nothing yet, Ok(()), Err(..),
\* Some(v) / a reference to v, None, or a bool
NoResult == [tag |-> "none", val |-> NoValue]
Ret(tag, v) == [tag |-> tag, val |-> v]

\* OnceLock::new: no value, status UNINIT
OnceLock_new ==
  /\ status = "UNINIT" /\ inner = NoValue
  /\ state = FALSE
  /\ func_runs = 0
  /\ result = [th \in Threads |-> NoResult]

\* everything but the OnceLock, as constructed
InitKernel(spawned) ==
  /\ task_queue = <<>>
  /\ spawn_queue = spawned
  /\ task_table = {}
  /\ rl = "admit" /\ cur = 1
  /\ polls = [t \in Tasks |-> 0]
  /\ irq = FALSE /\ IFLAG = TRUE /\ panicked = FALSE
  /\ ip = [th \in Threads |-> 1]
  /\ st = [th \in Threads |-> "start"]
  /\ locked = FALSE
  /\ wakeup_list = WakerList_new
  /\ live_guards = 0
  /\ held = [th \in Threads |-> FALSE]
  /\ acquisitions = 0
  /\ enabled = [th \in Threads |-> FALSE]
  /\ saved = [th \in Threads |-> FALSE]
  /\ MONOTONIC_TIME = 0
  /\ WAKEUP_SERVICE = [k \in 0..(TickMod - 1) |-> <<>>]
  /\ fut = [t \in Tasks |-> NoFut]
  /\ service_locked = FALSE
  /\ saved_intpt_flag = FALSE
  /\ NEXT_ID = 0
  /\ issued = <<>>
  /\ wl_locked = FALSE
  /\ wl_id = 0
  /\ wl_wakers = [h \in Handles |-> NoWaker]
  /\ handle = [th \in Threads |-> NoHandle]

InitCommon(spawned) == InitKernel(spawned) /\ OnceLock_new

InitMutex ==
  /\ InitCommon([i \in 1..NumTasks |-> i])
  /\ prog \in [Threads -> MutexProgs \cup {<<>>}]
  /\ prog[IRQ] = <<>>
  /\ \A t \in Tasks : prog[t] \in MutexProgs
  /\ overflow_checks = FALSE
  /\ spurious = MaxSpurious

NextMutex ==
  \/ run_ready_tasks_admit
  \/ run_ready_tasks_pop
  \/ run_ready_tasks_ready
  \/ sleep_if_idle
  \/ IrqEnter(IrqProgs)
  \/ IrqReturn
  \/ SpuriousWake
  \/ \E th \in Threads : Mutex_try_lock(th)
  \/ \E th \in Threads : MutexLocker_poll(th)
  \/ \E th \in Threads : MutexGuard_drop(th)
  \/ \E th \in Threads : yield_now(th)

SpecMutex == InitMutex /\ [][NextMutex]_vars

\* A guard is live from the successful compare_exchange of try_lock until the
\* store of its drop, the last moment it stands for access to the payload.
Holders == {th \in Threads : held[th]}

\* C1: whatever try_lock, lock, spin_lock and guard drops tasks and the
\* interrupt handler interleave on one Mutex, at most one guard is live.
C1_AtMostOneGuard == live_guards <= 1 /\ Cardinality(Holders) <= 1

\* a task holds the guard while the interrupt handler's try_lock has failed
C1_Witness ==
  /\ irq /\ ip[IRQ] = 2 /\ ~held[IRQ]
  /\ \E t \in Tasks : held[t]
  /\ \E t \in Tasks : st[t] = "parked"

\* C2: a guard is live exactly when the locked flag is true; nobody obtains a
\* guard while an earlier one is still live with the flag already false.
C2_GuardIffLocked ==
  /\ (live_guards > 0) <=> locked
  /\ (Holders # {}) <=> locked

\* the handler obtained the guard between the store and the notify_one of a
\* task's guard drop
C2_Witness ==
  /\ locked /\ held[IRQ]
  /\ \E t \in Tasks : st[t] = "notify" /\ ~held[t]

\* a task suspended inside lock(): MutexLocker::poll returned Pending
Parked(t) == CurOp(t) = "lock" /\ st[t] = "parked" /\ ~(rl = "poll" /\ cur = t)
\* a task inside lock() that is on the ready queue or being polled
Retrying(t) ==
  /\ CurOp(t) = "lock" /\ st[t] \in {"parked", "try_load", "try_cas"}
  /\ InQueue(task_queue, t) \/ (rl = "poll" /\ cur = t)
\* no guard drop is between its store and its notify_one
NoDropInProgress == \A th \in Threads : st[th] # "notify"

\* C4: no wake-up of a Mutex waiter is lost: whenever the mutex is unlocked
\* (and no drop is still on its way to notify_one) and a task is suspended in
\* lock(), some task inside lock() is on the ready queue or being polled,
\* redundant wake-ups included.
C4_NoLostWakeup ==
  (~locked /\ NoDropInProgress /\ \E t \in Tasks : Parked(t))
    => \E t \in Tasks : Retrying(t)

\* -------------------------------------------- specification: contention
\* Two tasks on the executor, each looping LoopN times "lock().await, then
\* drop the guard", with the periodic timer interrupt running.  A task
\* drops its guard either at once or after one suspension.
ContendTasks == {1, 2}
ContendProgs ==
  { Repeat(<<Call("lock"), Call("unlock")>>, LoopN),
    Repeat(<<Call("lock"), Call("yield"), Call("unlock")>>, LoopN) }

InitContend ==
  /\ \E sq \in {<<1, 2>>, <<2, 1>>} : InitCommon(sq)
  /\ prog \in [Threads -> ContendProgs \cup {<<>>}]
  /\ \A th \in Threads : (prog[th] = <<>>) <=> (th \notin ContendTasks)
  /\ overflow_checks = FALSE
  /\ spurious = 0

\* what the processor does next when no interrupt is taken
CpuContend ==
  \/ run_ready_tasks_admit
  \/ run_ready_tasks_pop
  \/ run_ready_tasks_ready
  \/ sleep_if_idle
  \/ \E th \in Threads : MutexLocker_poll(th)
  \/ \E th \in Threads : Mutex_try_lock(th)
  \/ \E th \in Threads : MutexGuard_drop(th)
  \/ \E th \in Threads : yield_now(th)

NextContend == CpuContend \/ clock_interrupt_handler

\* the processor keeps executing and the periodic timer keeps firing
SpecContend ==
  /\ InitContend /\ [][NextContend]_vars
  /\ WF_vars(CpuContend) /\ WF_vars(clock_interrupt_handler)

Completed(t) == CurOp(t) = "end" /\ t \notin task_table

\* C3: with two tasks each looping LoopN times "lock().await, drop", under
\* fair scheduling every lock() call gets its guard, both tasks complete and
\* the acquisitions add up to 2 * LoopN.
C3_ContendersComplete ==
  /\ \A t \in ContendTasks : [](CurOp(t) = "lock" => <>held[t])
  /\ <>[]((\A t \in ContendTasks : Completed(t)) /\ acquisitions = 2 * LoopN)

\* one task is through all its rounds; the other, which was suspended in
\* lock() and woken by a guard drop, holds the guard in a later round
C3_Witness ==
  \E t \in ContendTasks, u \in ContendTasks :
    /\ Completed(t) /\ held[u] /\ ip[u] > 3
    /\ acquisitions > LoopN
    /\ Len(prog[t]) = 3 * LoopN /\ Len(prog[u]) = 3 * LoopN

\* --------------------------------------------------- specification: sleep
\* Two tasks each await one sleep(d), d any duration up to MaxDurHalf half
\* ticks, on either build profile, while the timer interrupt ticks.
SleepTasks == {1, 2}

InitSleep ==
  /\ \E sq \in {<<1, 2>>} : InitCommon(sq)
  /\ prog \in [Threads -> {<<SleepCall(d)>> : d \in 0..MaxDurHalf} \cup {<<>>}]
  /\ \A th \in Threads : (prog[th] = <<>>) <=> (th \notin SleepTasks)
  \* a duration acts only through its truncation to ticks: the first
  \* sleeper takes every duration, the second a whole number of ticks
  /\ \A t \in SleepTasks \ {1} : prog[t][1].d % 2 = 0
  /\ overflow_checks \in BOOLEAN
  \* the profile shows only where a duration is below one tick
  /\ overflow_checks => \E t \in SleepTasks : TruncTicks(prog[t][1].d) = 0
  /\ spurious = MaxSpurious

CpuSleep ==
  \/ run_ready_tasks_admit
  \/ run_ready_tasks_pop
  \/ run_ready_tasks_ready
  \/ sleep_if_idle
  \/ \E th \in Threads : SleepFuture_new(th)
  \/ \E th \in Threads : SleepFuture_poll(th)
  \/ \E th \in Threads : register_sleep_steps(th)

NextSleep == CpuSleep \/ clock_interrupt_handler \/ SpuriousWake

SpecSleep ==
  /\ InitSleep /\ [][NextSleep]_vars
  /\ WF_vars(CpuSleep) /\ WF_vars(clock_interrupt_handler)

\* the step is the timer interrupt's call wake_sleep(tick)
WakeSleepCall == MONOTONIC_TIME' # MONOTONIC_TIME

\* C7: after wake_sleep(tick) no entry with a target tick <= tick is left in
\* the registry and the waker of every such entry has been invoked; it leaves
\* a non-empty registry untouched only when the smallest registered tick is
\* still above tick.
C7_WakeSleepRemovesDue ==
  [][WakeSleepCall =>
       LET tick == MONOTONIC_TIME
           due == {k \in Keys(WAKEUP_SERVICE) : k <= tick} IN
         /\ \A k \in Keys(WAKEUP_SERVICE') : k > tick
         /\ task_queue' = task_queue \o WakersOf(WAKEUP_SERVICE, due)
         /\ (WAKEUP_SERVICE' = WAKEUP_SERVICE /\ Keys(WAKEUP_SERVICE) # {})
              => MinOf(Keys(WAKEUP_SERVICE)) > tick]_vars

Sleeping(t) == fut[t].phase = "active" /\ fut[t].registered

\* C8: while the timer keeps firing and the run loop keeps running, every
\* task suspended in sleep(d) is eventually woken and its sleep completes,
\* whatever the other sleepers registered.
C8_SleeperResumes ==
  \A t \in SleepTasks : [](Sleeping(t) => <>(fut[t].phase = "resumed" \/ panicked))

\* start + ticks stays below the width of the counter
NoWrap(f) == TruncTicks(f.d) >= 1 => f.start + TruncTicks(f.d) - 1 < TickMod

\* C9 as stated: a sleep resumes only after the counter advanced by at least
\* ceil(d / tick_period) - 1 ticks since the call.
C9_ResumeAfterCeil ==
  \A t \in SleepTasks :
    fut[t].phase = "resumed" => fut[t].elapsed >= CeilTicks(fut[t].d) - 1

\* C9 as the code has it: a sleep whose end tick does not wrap resumes only
\* after the counter advanced by at least floor(d / tick_period) - 1 ticks.
C9_ResumeAfterFloor ==
  \A t \in SleepTasks :
    (fut[t].phase = "resumed" /\ NoWrap(fut[t]))
      => fut[t].elapsed >= TruncTicks(fut[t].d) - 1

\* a sleep of two and a half ticks, suspended and resumed after one tick
C9_Witness ==
  \E t \in SleepTasks :
    /\ fut[t].phase = "resumed" /\ fut[t].registered /\ NoWrap(fut[t])
    /\ fut[t].d = 5 /\ fut[t].elapsed = 1

\* the step is a poll of t's SleepFuture reading the counter
PollStep(t) ==
  /\ Running(t) /\ CurOp(t) = "sleep" /\ st[t] = "poll"
  /\ <<ip[t], st[t], rl>>' # <<ip[t], st[t], rl>>

\* C10: every poll of a SleepFuture, first or later, answers ready exactly
\* when the counter it reads is >= end_tick, registered or not.
C10_PollReadyIffDue ==
  [][\A t \in SleepTasks :
       PollStep(t) => ((ip'[t] = ip[t] + 1) <=> (MONOTONIC_TIME >= fut[t].end_tick))]_vars

\* a later poll of a registered future that is not yet due, about to answer,
\* after the other task's sleep has been polled ready and the task is gone
C10_Witness ==
  /\ \E t \in SleepTasks :
       /\ Running(t) /\ st[t] = "poll" /\ fut[t].registered
       /\ MONOTONIC_TIME < fut[t].end_tick
  /\ \E u \in SleepTasks : u \notin task_table /\ CurOp(u) = "end"

\* ------------------------------------------------ specification: IntMutex
\* Tasks and an interrupt handler share one IntMutex; a task may keep its
\* guard while it sleeps or yields, and the timer interrupt ticks whenever
\* interrupts are enabled.
IntProgs ==
  { <<Call("ilock"), SleepCall(4), Call("iunlock")>>,
    <<Call("itry"), Call("yield"), Call("iunlock")>>,
    <<Call("ispin"), Call("iunlock")>> }

IntIrqProgs == {<<Call("itry"), Call("iunlock")>>}

InitIntMutex ==
  /\ InitCommon([i \in 1..NumTasks |-> i])
  /\ prog \in [Threads -> IntProgs \cup {<<>>}]
  /\ prog[IRQ] = <<>>
  /\ \A t \in Tasks : prog[t] \in IntProgs
  /\ overflow_checks = FALSE
  /\ spurious = 0

NextIntMutex ==
  \/ run_ready_tasks_admit
  \/ run_ready_tasks_pop
  \/ run_ready_tasks_ready
  \/ sleep_if_idle
  \/ IrqEnter(IntIrqProgs)
  \/ IrqReturn
  \/ clock_interrupt_handler
  \/ \E th \in Threads : IntMutex_try_lock(th)
  \/ \E th \in Threads : Mutex_try_lock(th)
  \/ \E th \in Threads : MutexLocker_poll(th)
  \/ \E th \in Threads : IntMutexGuard_drop(th)
  \/ \E th \in Threads : MutexGuard_drop(th)
  \/ \E th \in Threads : yield_now(th)
  \/ \E th \in Threads : SleepFuture_new(th)
  \/ \E th \in Threads : SleepFuture_poll(th)
  \/ \E th \in Threads : register_sleep_steps(th)

SpecIntMutex == InitIntMutex /\ [][NextIntMutex]_vars

\* C5: while an IntMutex guard is live, from the successful try_lock until
\* its drop has cleared the lock flag, hardware interrupts are disabled,
\* whatever the holder and the run loop do in between.
C5_GuardLiveIntsOff == (Holders # {}) => ~IFLAG

\* the step completes the destruction of th's IntMutexGuard
GuardDestroyed(th) ==
  /\ Running(th) /\ CurOp(th) = "iunlock" /\ st[th] = "notify"
  /\ ip'[th] = ip[th] + 1

\* C6: once an IntMutex guard has been destroyed the interrupt flag is what
\* it was immediately before the acquisition: enabled again if it was
\* enabled, still disabled if it was disabled.
C6_DropRestoresFlag ==
  [][\A th \in Threads : GuardDestroyed(th) => (IFLAG' = enabled[th])]_vars

\* ------------------------------------------------- the sleep registry

\* C11: a SleepFuture instance pushes its waker into the registry at most
\* once: the first not-ready poll registers and sets the flag, and the
\* not-ready polls that follow add nothing.
C11_RegistersAtMostOnce ==
  \A t \in Tasks :
    /\ fut[t].regs <= 1
    /\ fut[t].registered => fut[t].regs = 1

\* a registered future has come back not ready from a second poll
C11_Witness ==
  \E t \in SleepTasks :
    /\ fut[t].phase = "active" /\ fut[t].registered /\ fut[t].regs = 1
    /\ polls[t] = 2 /\ ~(rl = "poll" /\ cur = t)
    /\ MONOTONIC_TIME < fut[t].end_tick

\* C12 as stated: on each timer interrupt the handler increments the counter
\* by exactly one and then calls wake_sleep with the new, incremented value.
C12_WakesWithNewTick ==
  [][WakeSleepCall =>
       /\ MONOTONIC_TIME' = (MONOTONIC_TIME + 1) % TickMod
       /\ ~panicked' =>
            LET r == wake_sleep(WAKEUP_SERVICE, MONOTONIC_TIME') IN
              /\ WAKEUP_SERVICE' = r.service
              /\ task_queue' = TaskWaker_wake_task(task_queue, r.woken)]_vars

\* C12: on each timer interrupt the handler increments the counter by exactly
\* one and then calls wake_sleep with the value the counter had before the
\* increment (the new value minus one).
C12_WakesWithOldTick ==
  [][WakeSleepCall =>
       /\ MONOTONIC_TIME' = (MONOTONIC_TIME + 1) % TickMod
       /\ ~panicked' =>
            LET r == wake_sleep(WAKEUP_SERVICE, MONOTONIC_TIME) IN
              /\ WAKEUP_SERVICE' = r.service
              /\ task_queue' = TaskWaker_wake_task(task_queue, r.woken)]_vars

\* the handler has run and the only registered tick, equal to the counter it
\* left behind, is still registered
C12_Witness ==
  /\ MONOTONIC_TIME > 0
  /\ Keys(WAKEUP_SERVICE) = {MONOTONIC_TIME}
  /\ \E t \in SleepTasks : fut[t].end_tick = MONOTONIC_TIME /\ fut[t].elapsed > 0
                            /\ fut[t].registered

Mutex_spin_lock(th) ==
  /\ Running(th) /\ th \in Tasks
  /\ CurOp(th) = "service_spin_lock"
  /\ service_locked' = TRUE
  /\ IF service_locked THEN UNCHANGED thrVars ELSE Advance(th)
  /\ UNCHANGED <<libVars, execVars, cpuVars, mutexVars, intVars, MONOTONIC_TIME,
                 WAKEUP_SERVICE, fut, overflow_checks, saved_intpt_flag,
                 spurious>>

\* the guard of the registry is dropped: the flag is cleared (no party waits
\* in the registry's wakeup list)
ServiceGuard_drop(th) ==
  /\ Running(th) /\ th \in Tasks
  /\ CurOp(th) = "service_unlock"
  /\ service_locked' = FALSE
  /\ Advance(th)
  /\ UNCHANGED <<libVars, execVars, cpuVars, mutexVars, intVars, MONOTONIC_TIME,
                 WAKEUP_SERVICE, fut, overflow_checks, saved_intpt_flag,
                 spurious>>

HolderTask == 1
HarnessSleeper == 2

InitHarness ==
  /\ \E sq \in {<<HolderTask, HarnessSleeper>>, <<HarnessSleeper, HolderTask>>} :
       InitCommon(sq)
  /\ \E d \in 0..MaxDurHalf :
       prog = [th \in Threads |->
                 IF th = HolderTask
                 THEN <<Call("service_spin_lock"), Call("service_unlock")>>
                 ELSE IF th = HarnessSleeper THEN <<SleepCall(d)>>
                 ELSE <<>>]
  /\ overflow_checks = FALSE
  /\ spurious = 0

CpuHarness ==
  \/ run_ready_tasks_admit
  \/ run_ready_tasks_pop
  \/ run_ready_tasks_ready
  \/ sleep_if_idle
  \/ \E th \in Threads : SleepFuture_new(th)
  \/ \E th \in Threads : SleepFuture_poll(th)
  \/ \E th \in Threads : register_sleep_steps(th)
  \/ \E th \in Threads : Mutex_spin_lock(th)
  \/ \E th \in Threads : ServiceGuard_drop(th)

NextHarness == CpuHarness \/ clock_interrupt_handler

SpecHarness == InitHarness /\ [][NextHarness]_vars

\* C14: wake_sleep called while another party holds the registry lock ends
\* in the panic state at once, without waiting for the lock, and leaves the
\* registry (and the ready queue) as they were.
C14_HeldLockPanics ==
  [][(WakeSleepCall /\ service_locked) =>
       /\ panicked'
       /\ WAKEUP_SERVICE' = WAKEUP_SERVICE
       /\ task_queue' = task_queue
       /\ service_locked']_vars

\* the handler has panicked on the held lock with a registered waker due
C14_Witness ==
  /\ panicked /\ service_locked /\ MONOTONIC_TIME > 0
  /\ fut[HarnessSleeper].registered
  /\ Keys(WAKEUP_SERVICE) # {}
  /\ MaxOf(Keys(WAKEUP_SERVICE)) <= MONOTONIC_TIME - 1

\* ------------------------------------------------------- the run loop

\* C15: the processor is halted only with the ready queue empty: an id
\* pushed by an interrupt between the emptiness check and the halt is never
\* left on the queue while the processor stays halted.
C15_HaltedOnlyWhenEmpty == (rl = "halted") => (task_queue = <<>>)

\* the processor is halted while a registered sleeper waits for the timer
C15_Witness ==
  /\ rl = "halted" /\ IFLAG
  /\ \E t \in SleepTasks : fut[t].phase = "active" /\ fut[t].registered
                            /\ t \in task_table

\* the table has held an entry for t: it holds one now, or t has been polled
EverInTable(t) == t \in task_table \/ polls[t] > 0

\* C16: the id of a spawned task is never on the ready queue unless the
\* table has held an entry for it: admission inserts the task with its waker
\* and pushes the id while it holds the table lock, the insertion first.
C16_QueuedOnlyAfterInsert ==
  /\ \A t \in Tasks : InQueue(task_queue, t) => EverInTable(t)
  /\ rl = "admit_push" => (TableLocked /\ cur \in task_table)

\* admission is between the insertion and the push of the id
C16_Witness ==
  /\ rl = "admit_push" /\ cur \in task_table /\ polls[cur] = 0
  /\ ~InQueue(task_queue, cur) /\ spawn_queue # <<>> /\ task_queue # <<>>

\* the run loop pops an id that has no entry in the table
PopsAbsent ==
  /\ rl = "pop" /\ task_queue # <<>> /\ Head(task_queue) \notin task_table
  /\ task_queue' = Tail(task_queue)

\* C17: an id popped without an entry in the table is skipped, with no panic
\* and no poll of any computation; a computation that has reported
\* completion is never polled again, however often its waker is invoked.
C17_AbsentIdSkipped ==
  /\ [][PopsAbsent =>
          (rl' = "pop" /\ ~panicked' /\ polls' = polls /\ ip' = ip /\ st' = st)]_vars
  /\ [](\A t \in Tasks : Completed(t) => ~(rl = "poll" /\ cur = t))
  /\ [][\A t \in Tasks : Completed(t) => (Completed(t)' /\ polls'[t] = polls[t])]_vars

\* the id of a completed task is at the head of the ready queue, about to be
\* popped
C17_Witness ==
  /\ rl = "pop" /\ task_queue # <<>> /\ ~panicked
  /\ Completed(Head(task_queue)) /\ polls[Head(task_queue)] > 0

\* the computation of t has no step at which it can suspend
Immediate(t) ==
  \A i \in 1..Len(prog[t]) : prog[t][i].op \notin {"lock", "yield", "sleep"}

\* the poll of t has returned Ready
ReportedReady(t) == CurOp(t) = "end" /\ ~(rl = "poll" /\ cur = t)

\* C18: a spawned computation that completes on its first poll is polled
\* exactly once and has no entry in the table afterwards.
C18_ImmediateTaskPolledOnce ==
  \A t \in Tasks :
    Immediate(t) =>
      /\ polls[t] <= 1
      /\ ReportedReady(t) => (polls[t] = 1 /\ t \notin task_table)

\* an immediate task has completed and its id, pushed by a wake during its
\* only poll, is still on the ready queue
C18_Witness ==
  \E t \in Tasks :
    /\ Immediate(t) /\ ReportedReady(t) /\ polls[t] = 1
    /\ InQueue(task_queue, t)

\* the run loop starts a poll
PollBegins == task_queue # <<>> /\ task_queue' = Tail(task_queue) /\ rl' = "poll"

\* C19: no two polls overlap: a poll starts only when no poll is in
\* progress, also when the id of the task being polled is on the ready queue
\* during its poll.
C19_NoOverlappingPolls ==
  [][(PollBegins \/ polls' # polls) => (rl # "poll" /\ ~irq)]_vars

\* a task is being polled while its own id is on the ready queue
C19_Witness ==
  /\ rl = "poll" /\ cur \in task_table /\ InQueue(task_queue, cur)
  /\ CurOp(cur) # "end" /\ st[cur] # "start"

\* the poll of cur returns Pending
ReturnsPending == rl = "poll" /\ rl' = "pop" /\ CurOp(cur) # "end"

\* t is suspended with a wake of its id on the ready queue
WokenSuspended(t) ==
  /\ t \in task_table /\ InQueue(task_queue, t)
  /\ ~(rl = "poll" /\ cur = t)

\* C20: after a poll that reports not ready the task is in the table under
\* its id, so a wake of that id issued afterwards leads to another poll of
\* the task.
C20_PendingStaysInTable ==
  /\ [][ReturnsPending => cur \in task_table']_vars
  /\ \A t \in ContendTasks :
       WokenSuspended(t) ~> (rl = "poll" /\ cur = t)

\* a task that came back not ready from a poll has been woken and waits for
\* its next poll
C20_Witness ==
  \E t \in ContendTasks :
    WokenSuspended(t) /\ polls[t] > 0 /\ CurOp(t) = "lock" /\ rl = "pop"

\* ------------------------------------- the handle-indexed WakerList
\* Every operation takes the spin lock `inner` (step start, spinning while
\* it is held), works on the list (wl_body) and releases the lock when the
\* guard goes out of scope (wl_unlock).

\* WakerList::handle: the handle gets inner.id, which is then incremented
\* (overflowing_add)
WakerList_handle(th) ==
  /\ Running(th)
  /\ CurOp(th) = "wl_handle" /\ st[th] \in {"start", "wl_body", "wl_unlock"}
  /\ IF st[th] = "start"
     THEN /\ wl_locked' = TRUE
          /\ IF wl_locked THEN UNCHANGED thrVars
             ELSE Goto(th, ip[th], "wl_body")
          /\ UNCHANGED <<wl_id, wl_wakers, handle, task_queue, panicked>>
     ELSE IF st[th] = "wl_body"
     THEN /\ Goto(th, ip[th], "wl_unlock")
          /\ wl_locked' = wl_locked
          /\ handle' = [handle EXCEPT ![th] = wl_id]
          /\ wl_id' = (wl_id + 1) % HandleMod
          /\ UNCHANGED <<wl_wakers, task_queue, panicked>>
     ELSE /\ wl_locked' = FALSE
          /\ Advance(th)
          /\ UNCHANGED <<wl_id, wl_wakers, handle, task_queue, panicked>>
  /\ UNCHANGED <<spawn_queue, task_table, rl, cur, polls, irq, IFLAG,
                 mutexVars, intVars, sleepVars, spurious, idVars, onceVars>>

\* WakerListHandle::register: wakers.insert(self.id, waker)
WakerListHandle_register(th) ==
  /\ Running(th)
  /\ CurOp(th) = "wl_register" /\ st[th] \in {"start", "wl_body", "wl_unlock"}
  /\ IF st[th] = "start"
     THEN /\ wl_locked' = TRUE
          /\ IF wl_locked THEN UNCHANGED thrVars
             ELSE Goto(th, ip[th], "wl_body")
          /\ UNCHANGED <<wl_id, wl_wakers, handle, task_queue, panicked>>
     ELSE IF st[th] = "wl_body"
     THEN /\ Goto(th, ip[th], "wl_unlock")
          /\ wl_locked' = wl_locked
          /\ wl_wakers' = [wl_wakers EXCEPT ![handle[th]] = th]
          /\ UNCHANGED <<wl_id, handle, task_queue, panicked>>
     ELSE /\ wl_locked' = FALSE
          /\ Advance(th)
          /\ UNCHANGED <<wl_id, wl_wakers, handle, task_queue, panicked>>
  /\ UNCHANGED <<spawn_queue, task_table, rl, cur, polls, irq, IFLAG,
                 mutexVars, intVars, sleepVars, spurious, idVars, onceVars>>

\* a drop that gives the handle up and leaves its entry in the map
WakerListHandle_drop_KeepEntry(th) ==
  /\ Running(th)
  /\ CurOp(th) = "wl_drop" /\ st[th] \in {"start", "wl_body", "wl_unlock"}
  /\ IF st[th] = "start"
     THEN /\ wl_locked' = TRUE
          /\ IF wl_locked THEN UNCHANGED thrVars
             ELSE Goto(th, ip[th], "wl_body")
          /\ UNCHANGED <<wl_id, wl_wakers, handle, task_queue, panicked>>
     ELSE IF st[th] = "wl_body"
     THEN /\ Goto(th, ip[th], "wl_unlock")
          /\ wl_locked' = wl_locked
          /\ handle' = [handle EXCEPT ![th] = NoHandle]
          /\ UNCHANGED <<wl_id, wl_wakers, task_queue, panicked>>
     ELSE /\ wl_locked' = FALSE
          /\ Advance(th)
          /\ UNCHANGED <<wl_id, wl_wakers, handle, task_queue, panicked>>
  /\ UNCHANGED <<spawn_queue, task_table, rl, cur, polls, irq, IFLAG,
                 mutexVars, intVars, sleepVars, spurious, idVars, onceVars>>

\* Drop for WakerListHandle: wakers.remove(&self.id)
WakerListHandle_drop(th) ==
  /\ Running(th)
  /\ CurOp(th) = "wl_drop" /\ st[th] \in {"start", "wl_body", "wl_unlock"}
  /\ IF st[th] = "start"
     THEN /\ wl_locked' = TRUE
          /\ IF wl_locked THEN UNCHANGED thrVars
             ELSE Goto(th, ip[th], "wl_body")
          /\ UNCHANGED <<wl_id, wl_wakers, handle, task_queue, panicked>>
     ELSE IF st[th] = "wl_body"
     THEN /\ Goto(th, ip[th], "wl_unlock")
          /\ wl_locked' = wl_locked
          /\ wl_wakers' = [wl_wakers EXCEPT ![handle[th]] = NoWaker]
          /\ handle' = [handle EXCEPT ![th] = NoHandle]
          /\ UNCHANGED <<wl_id, task_queue, panicked>>
     ELSE /\ wl_locked' = FALSE
          /\ Advance(th)
          /\ UNCHANGED <<wl_id, wl_wakers, handle, task_queue, panicked>>
  /\ UNCHANGED <<spawn_queue, task_table, rl, cur, polls, irq, IFLAG,
                 mutexVars, intVars, sleepVars, spurious, idVars, onceVars>>

\* a notify_one that takes for granted that a waker is registered
HandleList_notify_one_Unwrap(th) ==
  /\ Running(th)
  /\ CurOp(th) = "wl_notify" /\ st[th] \in {"start", "wl_body", "wl_unlock"}
  /\ IF st[th] = "start"
     THEN /\ wl_locked' = TRUE
          /\ IF wl_locked THEN UNCHANGED thrVars
             ELSE Goto(th, ip[th], "wl_body")
          /\ UNCHANGED <<wl_id, wl_wakers, handle, task_queue, panicked>>
     ELSE IF st[th] = "wl_body"
     THEN /\ Goto(th, ip[th], "wl_unlock")
          /\ wl_locked' = wl_locked
          /\ LET reg == {h \in Handles : wl_wakers[h] # NoWaker} IN
               /\ task_queue' =
                    IF reg = {} THEN task_queue
                    ELSE TaskWaker_wake_task(task_queue, <<wl_wakers[MinOf(reg)]>>)
               /\ panicked' = (reg = {})
          /\ UNCHANGED <<wl_id, wl_wakers, handle>>
     ELSE /\ wl_locked' = FALSE
          /\ Advance(th)
          /\ UNCHANGED <<wl_id, wl_wakers, handle, task_queue, panicked>>
  /\ UNCHANGED <<spawn_queue, task_table, rl, cur, polls, irq, IFLAG,
                 mutexVars, intVars, sleepVars, spurious, idVars, onceVars>>

\* WakerList::notify_one of the handle-indexed list: wake_by_ref on the
\* first entry of the map, if there is one; the entry stays in the map
HandleList_notify_one(th) ==
  /\ Running(th)
  /\ CurOp(th) = "wl_notify" /\ st[th] \in {"start", "wl_body", "wl_unlock"}
  /\ IF st[th] = "start"
     THEN /\ wl_locked' = TRUE
          /\ IF wl_locked THEN UNCHANGED thrVars
             ELSE Goto(th, ip[th], "wl_body")
          /\ UNCHANGED <<wl_id, wl_wakers, handle, task_queue, panicked>>
     ELSE IF st[th] = "wl_body"
     THEN /\ Goto(th, ip[th], "wl_unlock")
          /\ wl_locked' = wl_locked
          /\ LET reg == {h \in Handles : wl_wakers[h] # NoWaker} IN
               task_queue' =
                 IF reg = {} THEN task_queue
                 ELSE TaskWaker_wake_task(task_queue, <<wl_wakers[MinOf(reg)]>>)
          /\ UNCHANGED <<wl_id, wl_wakers, handle, panicked>>
     ELSE /\ wl_locked' = FALSE
          /\ Advance(th)
          /\ UNCHANGED <<wl_id, wl_wakers, handle, task_queue, panicked>>
  /\ UNCHANGED <<spawn_queue, task_table, rl, cur, polls, irq, IFLAG,
                 mutexVars, intVars, sleepVars, spurious, idVars, onceVars>>

\* an interrupt whose handler calls notify_one on the list
IrqNotify ==
  /\ ~panicked /\ ~irq /\ IFLAG /\ spurious > 0
  /\ spurious' = spurious - 1
  /\ prog' = [prog EXCEPT ![IRQ] = <<Call("wl_notify")>>]
  /\ irq' = TRUE /\ IFLAG' = FALSE
  /\ ip' = [ip EXCEPT ![IRQ] = 1]
  /\ st' = [st EXCEPT ![IRQ] = "start"]
  /\ UNCHANGED <<execVars, panicked, mutexVars, intVars, sleepVars, libVars>>

WlProgs ==
  { <<Call("wl_handle"), Call("wl_register"), Call("yield"), Call("wl_drop")>>,
    <<Call("wl_handle"), Call("wl_register"), Call("wl_notify"), Call("wl_drop")>>,
    <<Call("wl_notify")>> }

InitWakerList ==
  /\ InitCommon([i \in 1..NumTasks |-> i])
  /\ prog \in [Threads -> WlProgs \cup {<<>>}]
  /\ prog[IRQ] = <<>>
  /\ \A t \in Tasks : prog[t] \in WlProgs
  /\ overflow_checks = FALSE
  /\ spurious = MaxSpurious

NextWakerList ==
  \/ run_ready_tasks_admit
  \/ run_ready_tasks_pop
  \/ run_ready_tasks_ready
  \/ sleep_if_idle
  \/ IrqNotify
  \/ IrqReturn
  \/ \E th \in Threads : yield_now(th)
  \/ \E th \in Threads : WakerList_handle(th)
  \/ \E th \in Threads : WakerListHandle_register(th)
  \/ \E th \in Threads : WakerListHandle_drop(th)
  \/ \E th \in Threads : HandleList_notify_one(th)

\* the processor keeps executing
SpecWakerList ==
  /\ InitWakerList /\ [][NextWakerList]_vars
  /\ WF_vars(NextWakerList)

\* ------------------------------------------------- Mutex, further claims

\* th clears the flag of the guard it drops
StoresFalse(th) == held[th] /\ ~held'[th]

\* th leaves the notify_one call of its drop
Notifies(th) ==
  /\ CurOp(th) \in {"unlock", "iunlock"}
  /\ st[th] = "notify" /\ <<ip[th], st[th]>> # <<ip'[th], st'[th]>>

\* C21: dropping a guard clears locked first and calls notify_one afterwards,
\* once: the store notifies nobody, and when notify_one runs the flag is no
\* longer set on behalf of the guard being dropped.
C21_StoreThenNotify ==
  [][\A th \in Threads :
       /\ StoresFalse(th) =>
            /\ ~locked' /\ st'[th] = "notify"
            /\ wakeup_list' = wakeup_list /\ task_queue' = task_queue
       /\ Notifies(th) =>
            /\ ~held[th] /\ locked' = locked
            /\ Len(task_queue') <= Len(task_queue) + 1
            /\ st'[th] # "notify"]_vars

\* a guard has been dropped as far as the store: the mutex is unlocked and a
\* registered waiter is about to be notified
C21_Witness ==
  \E th \in Threads :
    /\ CurOp(th) = "unlock" /\ st[th] = "notify" /\ ~held[th] /\ ~locked
    /\ \E t \in Tasks : wakeup_list[t] > 0

\* th takes a step of try_lock that finds the flag set
TryLockFails(th) ==
  /\ CurOp(th) \in TryOps /\ st[th] \in TryStates(th) /\ locked
  /\ <<ip[th], st[th]>> # <<ip'[th], st'[th]>>

\* C22: try_lock on a locked Mutex returns None and changes nothing: flag,
\* waker list and guards are as before and no waker is invoked.
C22_FailedTryLockNoEffect ==
  [][\A th \in Threads :
       TryLockFails(th) =>
         /\ mutexVars' = mutexVars /\ locked'
         /\ task_queue' = task_queue
         /\ st'[th] # "try_cas"]_vars

\* a task went through try_lock while the mutex was locked and came out
\* without a guard
C22_Witness ==
  \E th \in Tasks :
    /\ prog[th][1].op = "try" /\ ip[th] = 2 /\ ~held[th] /\ locked

\* ------------------------------------------- handle-indexed WakerList

Registered == {h \in Handles : wl_wakers[h] # NoWaker}

\* th runs the body of notify_one
NotifyBody(th) ==
  /\ CurOp(th) = "wl_notify" /\ st[th] = "wl_body" /\ st'[th] = "wl_unlock"

\* C23: a notify_one call made while a waker is registered removes one
\* registered waker from the list and invokes that one: one waker fewer is
\* registered and no other waker is invoked.
C23_NotifyRemovesOne ==
  [][\A th \in Threads :
       (NotifyBody(th) /\ Registered # {}) =>
         \E h \in Registered :
           /\ wl_wakers' = [wl_wakers EXCEPT ![h] = NoWaker]
           /\ task_queue' = TaskWaker_wake_task(task_queue, <<wl_wakers[h]>>)]_vars

\* C24: a notify_one called by an interrupt handler completes, also when the
\* interrupted task is in the middle of handle creation, register, handle
\* drop or notify_one on the same list.
C24_IrqNotifyCompletes == [](irq => <>(~irq))

\* C25: notify_one on a list with no registered waker does nothing: no
\* panic, no waker invoked, the list unchanged.
C25_NotifyEmptyNoOp ==
  [][\A th \in Threads :
       (NotifyBody(th) /\ Registered = {}) =>
         /\ ~panicked'
         /\ task_queue' = task_queue
         /\ wl_wakers' = wl_wakers /\ wl_id' = wl_id /\ handle' = handle]_vars

\* notify_one has run its body on the empty list and still holds the lock
C25_Witness ==
  \E th \in Threads :
    /\ CurOp(th) = "wl_notify" /\ st[th] = "wl_unlock" /\ wl_locked
    /\ Registered = {} /\ ~panicked

\* ------------------------------------------- sleep registry, ties

\* th pushes its waker into the registry
RegistryPush(th) == st[th] = "reg_push" /\ st'[th] = "reg_unlock"

\* the entries a wake_sleep call has taken out
Removed == {k \in Keys(WAKEUP_SERVICE) : WAKEUP_SERVICE'[k] = <<>>}

\* C26: sleepers with the same target tick are kept in one registry entry
\* and are woken together: one wake_sleep call invokes every waker of an
\* entry or none of them.
C26_TiesWokenTogether ==
  /\ [][\A th \in SleepTasks :
          RegistryPush(th) =>
            WAKEUP_SERVICE' = [WAKEUP_SERVICE EXCEPT
                                 ![fut[th].end_tick] = Append(@, th)]]_vars
  /\ [][WakeSleepCall =>
          /\ \A k \in Keys(WAKEUP_SERVICE) :
               WAKEUP_SERVICE'[k] \in {WAKEUP_SERVICE[k], <<>>}
          /\ task_queue' = task_queue \o WakersOf(WAKEUP_SERVICE, Removed)]_vars

\* two sleepers registered for the same tick have both been woken by the
\* timer and their entry is gone
C26_Witness ==
  \E t, u \in SleepTasks :
    /\ t # u /\ fut[t].registered /\ fut[u].registered
    /\ fut[t].end_tick = fut[u].end_tick
    /\ WAKEUP_SERVICE[fut[t].end_tick] = <<>>
    /\ spurious = MaxSpurious
    /\ InQueue(task_queue, t) /\ InQueue(task_queue, u)

\* --------------------------------- specification: lock and sleep in a loop
\* Two tasks share one Mutex and each does LoopN times: lock().await, drop
\* the guard, sleep(one tick).await.

\* the timer interrupt, as long as the reduced counter has not reached its
\* last value (the scenario ends long before a usize counter wraps)
clock_interrupt_unwrapped ==
  /\ MONOTONIC_TIME < TickMod - 1
  /\ clock_interrupt_handler

ScenarioTasks == {1, 2}
ScenarioProg == Repeat(<<Call("lock"), Call("unlock"), SleepCall(2)>>, LoopN)

InitScenario ==
  /\ \E sq \in {<<1, 2>>, <<2, 1>>} : InitCommon(sq)
  /\ prog = [th \in Threads |->
               IF th \in ScenarioTasks THEN ScenarioProg ELSE <<>>]
  /\ overflow_checks \in BOOLEAN
  /\ spurious = 0

CpuScenario ==
  \/ run_ready_tasks_admit
  \/ run_ready_tasks_pop
  \/ run_ready_tasks_ready
  \/ sleep_if_idle
  \/ \E th \in Threads : MutexLocker_poll(th)
  \/ \E th \in Threads : Mutex_try_lock(th)
  \/ \E th \in Threads : MutexGuard_drop(th)
  \/ \E th \in Threads : SleepFuture_new(th)
  \/ \E th \in Threads : SleepFuture_poll(th)

NextScenario == CpuScenario \/ clock_interrupt_unwrapped

\* the processor keeps executing and the periodic timer keeps firing
SpecScenario ==
  /\ InitScenario /\ [][NextScenario]_vars
  /\ WF_vars(CpuScenario) /\ WF_vars(clock_interrupt_unwrapped)

ScenarioDone == \A t \in ScenarioTasks : Completed(t)

\* C27: in the scenario both tasks run to completion with 2 * LoopN
\* acquisitions in total, and never more than one guard is live.
C27_ScenarioCompletes ==
  /\ <>[](ScenarioDone /\ acquisitions = 2 * LoopN)
  /\ [](live_guards <= 1 /\ acquisitions <= 2 * LoopN)

\* both tasks are done, 2 * LoopN guards were handed out and none is live
C27_Witness ==
  /\ ScenarioDone /\ acquisitions = 2 * LoopN /\ live_guards = 0
  /\ ~locked /\ task_table = {}

\* ------------------------------------------------ specification: TaskId

\* a TaskId::new that reads the counter and leaves it as it is
TaskId_new_Load(th) ==
  /\ Running(th) /\ th \in Tasks
  /\ CurOp(th) = "task_new"
  /\ issued' = Append(issued, NEXT_ID)
  /\ NEXT_ID' = NEXT_ID
  /\ Advance(th)
  /\ UNCHANGED <<execVars, cpuVars, mutexVars, intVars, sleepVars, spurious,
                 onceVars, listVars>>

\* Task::new -> TaskId::new: TaskId(NEXT_ID.fetch_add(1, Relaxed)); the
\* addition wraps
TaskId_new(th) ==
  /\ Running(th) /\ th \in Tasks
  /\ CurOp(th) = "task_new"
  /\ issued' = Append(issued, NEXT_ID)
  /\ NEXT_ID' = (NEXT_ID + 1) % IdMod
  /\ Advance(th)
  /\ UNCHANGED <<execVars, cpuVars, mutexVars, intVars, sleepVars, spurious,
                 onceVars, listVars>>

TaskIdProgs ==
  { <<Call("task_new")>>,
    <<Call("task_new"), Call("yield"), Call("task_new")>>,
    <<Call("yield"), Call("task_new")>> }

InitTaskId ==
  /\ InitCommon([i \in 1..NumTasks |-> i])
  /\ prog \in [Threads -> TaskIdProgs \cup {<<>>}]
  /\ prog[IRQ] = <<>>
  /\ \A t \in Tasks : prog[t] \in TaskIdProgs
  /\ overflow_checks = FALSE
  /\ spurious = 0

NextTaskId ==
  \/ run_ready_tasks_admit
  \/ run_ready_tasks_pop
  \/ run_ready_tasks_ready
  \/ sleep_if_idle
  \/ \E th \in Threads : yield_now(th)
  \/ \E th \in Threads : TaskId_new(th)

SpecTaskId == InitTaskId /\ [][NextTaskId]_vars

\* C28: as long as the counter has not wrapped, every TaskId issued is
\* greater than every TaskId issued before it, so no id is issued twice.
C28_TaskIdsIncrease ==
  Len(issued) <= IdMod =>
    \A i, j \in 1..Len(issued) : i < j => issued[i] < issued[j]

\* every id of the reduced range has been issued once, by several tasks
C28_Witness ==
  /\ Len(issued) = IdMod /\ NEXT_ID = 0
  /\ \E t \in Tasks : ip[t] = 1 /\ t \in task_table

\* ------------------------------------------- OnceLock and Lazy (once.rs)
OnceCall(name, v) == [op |-> name, d |-> v]

InitOps == {"try_init_once", "get_or_init", "init_once"}

\* a try_init_inner that sets RUNNING and initializes whatever the status is
OnceLock_try_init_inner_NoExchange(th) ==
  /\ Running(th)
  /\ CurOp(th) \in InitOps
  /\ st[th] \in {"init_cas", "init_write", "init_store"}
  /\ IF st[th] = "init_cas"
     THEN /\ status' = "RUNNING"
          /\ Goto(th, ip[th], "init_write")
          /\ UNCHANGED <<inner, func_runs>>
     ELSE IF st[th] = "init_write"
     THEN /\ inner' = CurArg(th)
          /\ func_runs' = func_runs + 1
          /\ Goto(th, ip[th], "init_store")
          /\ status' = status
     ELSE /\ status' = "INIT"
          /\ Goto(th, ip[th], "init_ret")
          /\ UNCHANGED <<inner, func_runs>>
  /\ UNCHANGED <<execVars, cpuVars, mutexVars, intVars, sleepVars, spurious,
                 idVars, listVars, result, state>>

\* try_init_inner: loop on compare_exchange_weak(UNINIT, RUNNING); the
\* winner writes func() into inner and stores INIT; Err(INIT) returns;
\* Err(RUNNING) and a spurious Err(UNINIT) go round the loop again
OnceLock_try_init_inner(th) ==
  /\ Running(th)
  /\ CurOp(th) \in InitOps
  /\ st[th] \in {"init_cas", "init_write", "init_store"}
  /\ IF st[th] = "init_cas"
     THEN /\ status' = (IF status = "UNINIT" THEN "RUNNING" ELSE status)
          /\ IF status = "UNINIT" THEN Goto(th, ip[th], "init_write")
             ELSE IF status = "INIT" THEN Goto(th, ip[th], "init_ret")
             ELSE UNCHANGED thrVars
          /\ UNCHANGED <<inner, func_runs>>
     ELSE IF st[th] = "init_write"
     THEN /\ inner' = CurArg(th)
          /\ func_runs' = func_runs + 1
          /\ Goto(th, ip[th], "init_store")
          /\ status' = status
     ELSE /\ status' = "INIT"
          /\ Goto(th, ip[th], "init_ret")
          /\ UNCHANGED <<inner, func_runs>>
  /\ UNCHANGED <<execVars, cpuVars, mutexVars, intVars, sleepVars, spurious,
                 idVars, listVars, result, state>>

\* a try_init_once that goes to try_init_inner without looking at the status
OnceLock_try_init_once_NoCheck(th) ==
  /\ Running(th)
  /\ CurOp(th) = "try_init_once" /\ st[th] \in {"start", "init_ret"}
  /\ IF st[th] = "start"
     THEN /\ Goto(th, ip[th], "init_cas")
          /\ result' = result
     ELSE /\ result' = [result EXCEPT ![th] = Ret("Ok", NoValue)]
          /\ Advance(th)
  /\ UNCHANGED <<execVars, cpuVars, mutexVars, intVars, sleepVars, spurious,
                 idVars, listVars, status, inner, func_runs, state>>

\* OnceLock::try_init_once: Err(AlreadyInitialized) when is_init(), else
\* try_init_inner and Ok(())
OnceLock_try_init_once(th) ==
  /\ Running(th)
  /\ CurOp(th) = "try_init_once" /\ st[th] \in {"start", "init_ret"}
  /\ IF st[th] = "start"
     THEN IF status = "INIT"
          THEN /\ result' = [result EXCEPT ![th] = Ret("Err", NoValue)]
               /\ Advance(th)
          ELSE /\ Goto(th, ip[th], "init_cas")
               /\ result' = result
     ELSE /\ result' = [result EXCEPT ![th] = Ret("Ok", NoValue)]
          /\ Advance(th)
  /\ UNCHANGED <<execVars, cpuVars, mutexVars, intVars, sleepVars, spurious,
                 idVars, listVars, status, inner, func_runs, state>>

\* OnceLock::get: Some(value) when is_init(), else None
OnceLock_get(th) ==
  /\ Running(th)
  /\ CurOp(th) = "get"
  /\ result' = [result EXCEPT ![th] =
                  IF status = "INIT" THEN Ret("Some", inner)
                  ELSE Ret("None", NoValue)]
  /\ Advance(th)
  /\ UNCHANGED <<execVars, cpuVars, mutexVars, intVars, sleepVars, spurious,
                 idVars, listVars, status, inner, func_runs, state>>

\* the value the with_value test constructs the cell with
WithValue == 5

\* OnceLock::with_value: the value in place, status INIT
OnceLock_with_value(v) ==
  /\ status = "INIT" /\ inner = v
  /\ state = FALSE
  /\ func_runs = 0
  /\ result = [th \in Threads |-> NoResult]

\* the calls of the get_init_once and with_value tests, made by tasks and
\* by an interrupt handler on one shared cell
OnceProgs ==
  { <<Call("get"), OnceCall("try_init_once", 4), Call("get"),
      OnceCall("try_init_once", 5), Call("get")>>,
    <<OnceCall("try_init_once", 5), Call("yield"), Call("get")>>,
    <<OnceCall("try_init_once", 4), Call("get")>> }

OnceIrqProgs ==
  { <<Call("get")>> }

InitOnce ==
  /\ InitKernel([i \in 1..NumTasks |-> i])
  /\ OnceLock_new \/ OnceLock_with_value(WithValue)
  /\ prog \in [Threads -> OnceProgs \cup {<<>>}]
  /\ prog[IRQ] = <<>>
  /\ \A t \in Tasks : prog[t] \in OnceProgs
  /\ overflow_checks = FALSE
  /\ spurious = 0

NextOnce ==
  \/ run_ready_tasks_admit
  \/ run_ready_tasks_pop
  \/ run_ready_tasks_ready
  \/ sleep_if_idle
  \/ IrqEnter(OnceIrqProgs)
  \/ IrqReturn
  \/ \E th \in Threads : yield_now(th)
  \/ \E th \in Threads : OnceLock_try_init_inner(th)
  \/ \E th \in Threads : OnceLock_try_init_once(th)
  \/ \E th \in Threads : OnceLock_get(th)

SpecOnce == InitOnce /\ [][NextOnce]_vars

\* a call of op begins / returns in this step
CallBegins(th, op) ==
  /\ Running(th) /\ CurOp(th) = op /\ st[th] = "start"
  /\ <<ip[th], st[th]>> # <<ip'[th], st'[th]>>

CallReturns(th, op) ==
  /\ Running(th) /\ CurOp(th) = op
  /\ ip'[th] = ip[th] + 1

\* C29: once the cell holds a value (status INIT, by with_value or by a
\* completed initialization) the value never changes and no init function
\* runs again; every try_init_once begun from then on returns
\* Err(AlreadyInitialized), and every get returns Some(that value)
C29_InitializedIsFinal ==
  [][ status = "INIT" =>
        /\ status' = "INIT" /\ inner' = inner /\ func_runs' = func_runs
        /\ \A th \in Threads :
             /\ CallBegins(th, "try_init_once") =>
                  /\ CallReturns(th, "try_init_once")
                  /\ result'[th] = Ret("Err", NoValue)
             /\ CallReturns(th, "get") => result'[th] = Ret("Some", inner)
    ]_vars

\* a cell initialized with 4 has just refused an initialization with 5, and
\* an interrupt handler has read 4 from it
C29_Witness ==
  /\ status = "INIT" /\ inner = 4 /\ func_runs = 1
  /\ result[IRQ] = Ret("Some", 4)
  /\ \E a \in Tasks :
       /\ ip[a] > 1 /\ ip[a] - 1 <= Len(prog[a])
       /\ prog[a][ip[a] - 1] = OnceCall("try_init_once", 5)
       /\ result[a] = Ret("Err", NoValue)

\* ------------------------------------------------------------------ Lazy
\* the result of the init function of the test_lazy test
LazyValue == 6

\* a get_or_init that runs the function without claiming the cell first
OnceLock_get_or_init_NoClaim(th) ==
  /\ Running(th)
  /\ CurOp(th) = "get_or_init" /\ st[th] \in {"start", "init_ret"}
  /\ IF st[th] = "start"
     THEN /\ Goto(th, ip[th], "init_write")
          /\ result' = result
     ELSE /\ result' = [result EXCEPT ![th] = Ret("Ref", inner)]
          /\ Advance(th)
  /\ UNCHANGED <<execVars, cpuVars, mutexVars, intVars, sleepVars, spurious,
                 idVars, listVars, status, inner, func_runs, state>>

\* OnceLock::get_or_init, as Lazy::get_or_init and Deref call it with the
\* Lazy's init function: the value when try_get() is Ok, else
\* try_init_inner and then get_unchecked
OnceLock_get_or_init(th) ==
  /\ Running(th)
  /\ CurOp(th) = "get_or_init" /\ st[th] \in {"start", "init_ret"}
  /\ IF st[th] = "start"
     THEN IF status = "INIT"
          THEN /\ result' = [result EXCEPT ![th] = Ret("Ref", inner)]
               /\ Advance(th)
          ELSE /\ Goto(th, ip[th], "init_cas")
               /\ result' = result
     ELSE /\ result' = [result EXCEPT ![th] = Ret("Ref", inner)]
          /\ Advance(th)
  /\ UNCHANGED <<execVars, cpuVars, mutexVars, intVars, sleepVars, spurious,
                 idVars, listVars, status, inner, func_runs, state>>

\* Lazy::is_init: the cell's is_init()
Lazy_is_init(th) ==
  /\ Running(th)
  /\ CurOp(th) = "is_init"
  /\ result' = [result EXCEPT ![th] =
                  Ret(IF status = "INIT" THEN "true" ELSE "false", NoValue)]
  /\ Advance(th)
  /\ UNCHANGED <<execVars, cpuVars, mutexVars, intVars, sleepVars, spurious,
                 idVars, listVars, status, inner, func_runs, state>>

Deref == OnceCall("get_or_init", LazyValue)

LazyProgs ==
  { <<Call("is_init"), Deref, Call("is_init")>>,
    <<Deref, Call("yield"), Deref>>,
    <<Call("is_init"), Call("yield"), Deref, Call("is_init")>> }

LazyIrqProgs ==
  { <<Call("is_init")>>, <<Deref>> }

\* Lazy::new: the cell is OnceLock::new()
InitLazy ==
  /\ InitCommon([i \in 1..NumTasks |-> i])
  /\ prog \in [Threads -> LazyProgs \cup {<<>>}]
  /\ prog[IRQ] = <<>>
  /\ \A t \in Tasks : prog[t] \in LazyProgs
  /\ overflow_checks = FALSE
  /\ spurious = 0

NextLazy ==
  \/ run_ready_tasks_admit
  \/ run_ready_tasks_pop
  \/ run_ready_tasks_ready
  \/ sleep_if_idle
  \/ IrqEnter(LazyIrqProgs)
  \/ IrqReturn
  \/ \E th \in Threads : yield_now(th)
  \/ \E th \in Threads : OnceLock_try_init_inner(th)
  \/ \E th \in Threads : OnceLock_get_or_init(th)
  \/ \E th \in Threads : Lazy_is_init(th)

SpecLazy == InitLazy /\ [][NextLazy]_vars

\* C30: a Lazy starts uninitialized and stays so until a dereference acts
\* on it; the init function never runs twice; every dereference that
\* returns yields the init function's result, with the function having run
\* exactly once and is_init() true from then on; is_init() answers true
\* only after that one run
C30_LazyInitOnce ==
  /\ status = "UNINIT" /\ func_runs = 0
  /\ [][ /\ func_runs' <= 1
         /\ (status = "INIT" => status' = "INIT" /\ inner' = inner)
         /\ (status = "UNINIT" /\ status' # "UNINIT" =>
               \E th \in Threads : Running(th) /\ CurOp(th) = "get_or_init")
         /\ \A th \in Threads :
              /\ CallReturns(th, "get_or_init") =>
                   /\ result'[th] = Ret("Ref", LazyValue)
                   /\ status' = "INIT" /\ func_runs' = 1
              /\ CallReturns(th, "is_init") =>
                   /\ result'[th].tag = "true" <=> status = "INIT"
                   /\ result'[th].tag = "true" =>
                        func_runs = 1 /\ inner = LazyValue
                   /\ func_runs = 0 => result'[th].tag = "false"
       ]_vars

\* is_init() was false in an interrupt handler before the first dereference,
\* and a task that found the Lazy already initialized by another has read
\* the value and seen is_init() true
C30_Witness ==
  /\ status = "INIT" /\ inner = LazyValue /\ func_runs = 1
  /\ result[IRQ] = Ret("false", NoValue)
  /\ \E a, b \in Tasks :
       /\ a # b
       /\ result[a] = Ret("true", NoValue) /\ ip[a] > Len(prog[a])
       /\ result[b] = Ret("Ref", LazyValue) /\ ip[b] > Len(prog[b])

\* ------------------------------------------------- Mutex::force_unlock
\* a force_unlock that also notifies a waiter, as a guard's drop does
Mutex_force_unlock_Notify(th) ==
  /\ Running(th)
  /\ CurOp(th) = "force"
  /\ locked' = FALSE
  /\ \E r \in WakerList_notify_one(wakeup_list) :
       /\ wakeup_list' = r.list
       /\ task_queue' = TaskWaker_wake_task(task_queue, r.woken)
  /\ Advance(th)
  /\ UNCHANGED <<libVars, spawn_queue, task_table, rl, cur, cpuVars, live_guards,
                 held, acquisitions, intVars, sleepVars, spurious, polls>>

\* Mutex::force_unlock (and IntMutex::force_unlock, which only forwards):
\* locked.store(false) and nothing else
Mutex_force_unlock(th) ==
  /\ Running(th)
  /\ CurOp(th) = "force"
  /\ locked' = FALSE
  /\ UNCHANGED <<wakeup_list, task_queue>>
  /\ Advance(th)
  /\ UNCHANGED <<libVars, spawn_queue, task_table, rl, cur, cpuVars, live_guards,
                 held, acquisitions, intVars, sleepVars, spurious, polls>>

\* a holder that forces the lock open and drops its guard later, waiters,
\* and an interrupt handler that forces the lock open
ForceProgs ==
  { <<Call("try"), Call("yield"), Call("force"), Call("yield"), Call("unlock")>>,
    <<Call("lock"), Call("unlock")>>,
    <<Call("lock"), Call("yield"), Call("unlock")>> }

ForceIrqProgs == {<<Call("force")>>}

InitForce ==
  /\ InitCommon([i \in 1..NumTasks |-> i])
  /\ prog \in [Threads -> ForceProgs \cup {<<>>}]
  /\ prog[IRQ] = <<>>
  /\ \A t \in Tasks : prog[t] \in ForceProgs
  /\ overflow_checks = FALSE
  /\ spurious = 0

NextForce ==
  \/ run_ready_tasks_admit
  \/ run_ready_tasks_pop
  \/ run_ready_tasks_ready
  \/ sleep_if_idle
  \/ IrqEnter(ForceIrqProgs)
  \/ IrqReturn
  \/ \E th \in Threads : Mutex_try_lock(th)
  \/ \E th \in Threads : MutexLocker_poll(th)
  \/ \E th \in Threads : MutexGuard_drop(th)
  \/ \E th \in Threads : Mutex_force_unlock(th)
  \/ \E th \in Threads : yield_now(th)

SpecForce == InitForce /\ [][NextForce]_vars

\* a task suspended in lock(): parked and not on the ready queue
SuspendedInLock(t) ==
  /\ t \in task_table /\ st[t] = "parked"
  /\ ~InQueue(task_queue, t)

\* C31: a force_unlock step clears the flag and leaves the waker list and
\* the ready queue as they were; a task suspended in lock() is put on the
\* ready queue only by the notify_one of a guard's drop
C31_ForceUnlockNotifiesNobody ==
  [][ /\ \A th \in Threads :
           CallReturns(th, "force") =>
             /\ locked' = FALSE
             /\ wakeup_list' = wakeup_list
             /\ task_queue' = task_queue
      /\ \A t \in Tasks :
           SuspendedInLock(t) /\ InQueue(task_queue', t) =>
             \E u \in Threads :
               /\ Running(u) /\ CurOp(u) = "unlock" /\ st[u] = "notify"
    ]_vars

\* a holder has forced the lock open while a waiter with a recorded waker
\* is suspended: the flag is clear and the waiter is still not queued
C31_Witness ==
  /\ ~locked
  /\ \E h, w \in Tasks :
       /\ h # w
       /\ Len(prog[h]) > 3 /\ prog[h][3].op = "force"
       /\ ip[h] = 4 /\ st[h] = "start"
       /\ SuspendedInLock(w) /\ wakeup_list[w] > 0

\* ---------------------------------------------------------------- spawn
SpawnCall(t) == [op |-> "spawn", d |-> t]

\* spawn: push the task on the spawn queue; the id it was created with is
\* the call's argument
Executor_spawn(th) ==
  /\ Running(th) /\ th \in Tasks
  /\ CurOp(th) = "spawn"
  /\ spawn_queue' = Append(spawn_queue, CurArg(th))
  /\ Advance(th)
  /\ UNCHANGED <<libVars, task_queue, task_table, rl, cur, cpuVars, mutexVars,
                 intVars, sleepVars, spurious, polls>>

\* task t spawns task t + 1 from inside its poll, before or after a yield;
\* the last task only yields
SpawnProgs(t) ==
  IF t < NumTasks
  THEN { <<SpawnCall(t + 1)>>,
         <<Call("yield"), SpawnCall(t + 1)>>,
         <<SpawnCall(t + 1), Call("yield")>> }
  ELSE { <<Call("yield")>> }

\* only the first task is spawned before run() starts
InitSpawn ==
  /\ InitCommon(<<1>>)
  /\ prog \in [Threads -> UNION {SpawnProgs(t) : t \in Tasks} \cup {<<>>}]
  /\ prog[IRQ] = <<>>
  /\ \A t \in Tasks : prog[t] \in SpawnProgs(t)
  /\ overflow_checks = FALSE
  /\ spurious = 0

CpuSpawn ==
  \/ run_ready_tasks_admit
  \/ run_ready_tasks_pop
  \/ run_ready_tasks_ready
  \/ sleep_if_idle
  \/ \E th \in Threads : yield_now(th)
  \/ \E th \in Threads : Executor_spawn(th)

NextSpawn == CpuSpawn \/ clock_interrupt_handler

SpecSpawn == InitSpawn /\ [][NextSpawn]_vars /\ WF_vars(CpuSpawn)

\* C32: the processor is never halted while the spawn queue holds a task
\* that has not been admitted to the task table
C32_NoHaltWithSpawned ==
  rl = "halted" => spawn_queue = <<>>

\* ------------------------------------------- compare_exchange_weak
\* Mutex::try_lock with all the outcomes of compare_exchange_weak: the
\* exchange may report failure although the flag was false (the weak
\* exchange is allowed to fail spuriously), and `.ok()?` then returns None
Mutex_try_lock_weak(th) ==
  /\ Running(th)
  /\ CurOp(th) \in TryOps /\ st[th] \in TryStates(th)
  /\ IF st[th] # "try_cas"
     THEN /\ IF locked THEN AfterNone(th) ELSE Goto(th, ip[th], "try_cas")
          /\ UNCHANGED mutexVars
     ELSE \E exchanged \in IF locked THEN {FALSE} ELSE BOOLEAN :
            IF exchanged
            THEN /\ locked' = TRUE
                 /\ live_guards' = live_guards + 1
                 /\ held' = [held EXCEPT ![th] = TRUE]
                 /\ acquisitions' = acquisitions + (IF th \in Tasks THEN 1 ELSE 0)
                 /\ wakeup_list' = wakeup_list
                 /\ AfterSome(th)
            ELSE /\ AfterNone(th)
                 /\ UNCHANGED mutexVars
  /\ UNCHANGED <<libVars, execVars, cpuVars, intVars, sleepVars, spurious>>

\* the timer handler with that try_lock on the registry: wake_sleep gets
\* None, and panics, when the lock is held or the exchange fails
clock_interrupt_handler_weak ==
  /\ ~panicked /\ ~irq /\ IFLAG
  /\ \E exchanged \in IF service_locked THEN {FALSE} ELSE BOOLEAN :
       LET curr_time == HandlerTick(MONOTONIC_TIME)
           r == wake_sleep_entry(~exchanged, WAKEUP_SERVICE, curr_time) IN
         /\ MONOTONIC_TIME' = (MONOTONIC_TIME + 1) % TickMod
         /\ WAKEUP_SERVICE' = r.service
         /\ task_queue' = TaskWaker_wake_task(task_queue, r.woken)
         /\ panicked' = r.panic
  /\ fut' = [t \in Tasks |-> Tick(fut[t])]
  /\ rl' = AfterInterrupt(rl)
  /\ UNCHANGED <<libVars, spawn_queue, task_table, cur, polls, irq, IFLAG, thrVars,
                 mutexVars, intVars, overflow_checks, regVars, spurious>>

WeakProgs ==
  { <<Call("try"), Call("unlock")>>,
    <<Call("try"), Call("yield"), Call("unlock")>>,
    <<Call("spin"), Call("yield"), Call("unlock")>> }

InitWeak ==
  /\ InitCommon([i \in 1..NumTasks |-> i])
  /\ prog \in [Threads -> WeakProgs \cup {<<>>}]
  /\ prog[IRQ] = <<>>
  /\ \A t \in Tasks : prog[t] \in WeakProgs
  /\ overflow_checks = FALSE
  /\ spurious = 0

NextWeak ==
  \/ run_ready_tasks_admit
  \/ run_ready_tasks_pop
  \/ run_ready_tasks_ready
  \/ sleep_if_idle
  \/ IrqEnter(IrqProgs)
  \/ IrqReturn
  \/ clock_interrupt_handler_weak
  \/ \E th \in Threads : Mutex_try_lock_weak(th)
  \/ \E th \in Threads : MutexGuard_drop(th)
  \/ \E th \in Threads : yield_now(th)

SpecWeak == InitWeak /\ [][NextWeak]_vars

\* the compare-exchange of a try_lock is executed in this step
TryLockExchanges(th) ==
  /\ Running(th)
  /\ CurOp(th) \in TryOps /\ st[th] = "try_cas"
  /\ <<ip[th], st[th]>> # <<ip'[th], st'[th]>>

\* C33: a try_lock whose exchange is executed with the flag clear returns a
\* guard, and the timer handler's wake_sleep does not panic when the
\* registry lock is free
C33_NoneOnlyIfHeld ==
  [][ /\ \A th \in Threads :
           TryLockExchanges(th) /\ ~locked => held'[th] /\ locked'
      /\ (MONOTONIC_TIME' # MONOTONIC_TIME /\ ~service_locked) => ~panicked'
    ]_vars

\* ------------------------------------------- sleeps shorter than a tick
\* the kernel panicked in SleepFuture::new of task t
PanickedInNew(t) ==
  /\ panicked /\ rl = "poll" /\ cur = t
  /\ CurOp(t) = "sleep" /\ st[t] = "start"

\* C34: a sleep of less than one tick period does not panic at its
\* construction and is over no later than the next tick: it is never still
\* pending after two ticks
C34_ShortSleepCompletes ==
  \A t \in SleepTasks :
    /\ ~(PanickedInNew(t) /\ TruncTicks(CurArg(t)) = 0)
    /\ (fut[t].phase = "active" /\ TruncTicks(fut[t].d) = 0) => fut[t].elapsed <= 1

\* --------------------------------------- WakerListHandle, drop and re-use
\* what MutexLocker does with its handle: a waiter that is polled twice
\* while locked registers twice and drops the handle when its attempt ends;
\* a waiter that gives up and later notifies; a notifier
HandleProgs ==
  { <<Call("wl_handle"), Call("wl_register"), Call("yield"),
      Call("wl_register"), Call("wl_drop")>>,
    <<Call("wl_handle"), Call("wl_register"), Call("wl_drop"), Call("yield"),
      Call("wl_notify")>>,
    <<Call("wl_notify")>> }

InitHandle ==
  /\ InitCommon([i \in 1..NumTasks |-> i])
  /\ prog \in [Threads -> HandleProgs \cup {<<>>}]
  /\ prog[IRQ] = <<>>
  /\ \A t \in Tasks : prog[t] \in HandleProgs
  /\ overflow_checks = FALSE
  /\ spurious = MaxSpurious

NextHandle ==
  \/ run_ready_tasks_admit
  \/ run_ready_tasks_pop
  \/ run_ready_tasks_ready
  \/ sleep_if_idle
  \/ IrqNotify
  \/ IrqReturn
  \/ \E th \in Threads : yield_now(th)
  \/ \E th \in Threads : WakerList_handle(th)
  \/ \E th \in Threads : WakerListHandle_register(th)
  \/ \E th \in Threads : WakerListHandle_drop(th)
  \/ \E th \in Threads : HandleList_notify_one(th)

SpecHandle == InitHandle /\ [][NextHandle]_vars

\* the handles that exist
LiveHandles == {handle[th] : th \in Threads} \ {NoHandle}

\* th runs the body of the drop of its handle
DropBody(th) ==
  /\ CurOp(th) = "wl_drop" /\ st[th] = "wl_body" /\ st'[th] = "wl_unlock"

\* C35: every entry of the list belongs to a live handle and holds the waker
\* of the handle's owner (so there is at most one entry per live handle,
\* however often it registered); the drop of a handle takes its entry out;
\* and the waker notify_one invokes is that of a live handle's owner
C35_DropRemovesRegistration ==
  /\ [](\A h \in Registered :
          \E th \in Threads : handle[th] = h /\ wl_wakers[h] = th)
  /\ [](Cardinality(Registered) <= Cardinality(LiveHandles))
  /\ [][\A th \in Threads :
          /\ DropBody(th) =>
               /\ wl_wakers'[handle[th]] = NoWaker
               /\ \A h \in Handles \ {handle[th]} : wl_wakers'[h] = wl_wakers[h]
          /\ (NotifyBody(th) /\ task_queue' # task_queue) =>
               \E t \in Tasks :
                 /\ task_queue' = TaskWaker_wake_task(task_queue, <<t>>)
                 /\ handle[t] # NoHandle /\ wl_wakers[handle[t]] = t
       ]_vars

\* one waiter has registered and dropped its handle; another has registered
\* twice on its one handle, and an interrupt handler's notify_one has found
\* that waker, the only entry of the list
C35_Witness ==
  \E a, b \in Tasks :
    /\ a # b
    /\ Len(prog[a]) = 5 /\ prog[a][3].op = "wl_drop" /\ ip[a] >= 4
    /\ handle[a] = NoHandle
    /\ CurOp(b) = "wl_drop" /\ st[b] = "start" /\ ip[b] = 5
    /\ irq /\ st[IRQ] = "wl_unlock"
    /\ Registered = {handle[b]}
    /\ task_queue # <<>> /\ task_queue[Len(task_queue)] = b

\* ------------------------------------------------------------ yield_now
\* tasks that yield once, twice, or in every round of a loop_yield! loop cut
\* off after LoopN rounds
YieldProgs ==
  { <<Call("yield")>>,
    <<Call("yield"), Call("yield")>>,
    Repeat(<<Call("yield")>>, LoopN) }

InitYield ==
  /\ InitCommon([i \in 1..NumTasks |-> i])
  /\ prog \in [Threads -> YieldProgs \cup {<<>>}]
  /\ prog[IRQ] = <<>>
  /\ \A t \in Tasks : prog[t] \in YieldProgs
  /\ overflow_checks = FALSE
  /\ spurious = 0

\* the run loop and the tasks: no interrupt ever arrives
NextYield ==
  \/ run_ready_tasks_admit
  \/ run_ready_tasks_pop
  \/ run_ready_tasks_ready
  \/ sleep_if_idle
  \/ \E th \in Threads : yield_now(th)

SpecYield == InitYield /\ [][NextYield]_vars /\ WF_vars(NextYield)

\* th's YieldNow future is polled in this step
YieldPolled(th) ==
  /\ Running(th) /\ CurOp(th) = "yield"
  /\ <<ip[th], st[th]>> # <<ip'[th], st'[th]>>

\* C36: the first poll of yield_now is not-ready and pushes the task's id
\* on the ready queue once; the next poll is ready and pushes nothing; and
\* with no interrupt at all a task that yielded is polled again and goes
\* on past the yield
C36_YieldResumes ==
  /\ [][\A th \in Tasks :
          YieldPolled(th) =>
            IF st[th] = "start"
            THEN /\ task_queue' = task_queue \o <<th>>
                 /\ st'[th] = "yielded" /\ ip'[th] = ip[th] /\ rl' = "pop"
            ELSE /\ task_queue' = task_queue
                 /\ ip'[th] = ip[th] + 1 /\ rl' = rl
       ]_vars
  /\ \A t \in Tasks :
       \A i \in 1..LoopN :
         [](ip[t] = i /\ st[t] = "yielded" => <>(ip[t] > i))

\* a task has gone through every yield of its loop and was polled more
\* than once
C36_Witness ==
  \E t \in Tasks :
    /\ Len(prog[t]) = LoopN /\ ip[t] > LoopN
    /\ polls[t] = 2 /\ t \notin task_table

\* ------------------------------------------- IntMutex::try_lock, failure
\* a holder that sleeps with its guard, a task that tries the lock after a
\* sleep of its own, and a task that tries at once
IntTryProgs ==
  { <<Call("ilock"), SleepCall(4), Call("iunlock")>>,
    <<SleepCall(4), Call("itry"), Call("iunlock")>>,
    <<Call("itry"), Call("yield"), Call("iunlock")>> }

IntTryTasks == {1, 2}

InitIntTry ==
  /\ InitCommon(<<1, 2>>)
  /\ prog \in [Threads -> IntTryProgs \cup {<<>>}]
  /\ \A th \in Threads : (prog[th] = <<>>) <=> (th \notin IntTryTasks)
  /\ overflow_checks = FALSE
  /\ spurious = 0

SpecIntTry == InitIntTry /\ [][NextIntMutex]_vars

\* th enters IntMutex::try_lock / leaves it with None
IntTryEnters(th) ==
  /\ Running(th) /\ CurOp(th) \in IntOps
  /\ st[th] \in {"start", "itry_enter"} /\ st'[th] = "try_load"

IntTryReturnsNone(th) ==
  /\ Running(th) /\ CurOp(th) \in IntOps
  /\ st[th] = "itry_none" /\ st'[th] # "itry_none"

\* C37: `enabled` is the interrupt flag as it was when try_lock was entered,
\* no interrupt is taken inside the call, and a try_lock that returns None
\* leaves the flag at that value, no guard behind and the lock as it was
C37_FailedIntTryLockKeepsFlag ==
  [][\A th \in Threads :
       /\ IntTryEnters(th) => enabled'[th] = IFLAG /\ ~IFLAG'
       /\ (CurOp(th) \in IntOps /\ st[th] \in {"try_load", "try_cas", "itry_none"})
            => ~irq' \/ th = IRQ
       /\ IntTryReturnsNone(th) =>
            /\ IFLAG' = enabled[th]
            /\ held' = held /\ locked' = locked
    ]_vars

\* a task called try_lock with interrupts enabled while another party held
\* the lock: it has no guard and interrupts are enabled again
C37_Witness ==
  \E th \in IntTryTasks :
    /\ prog[th][2].op = "itry" /\ ip[th] = 3 /\ st[th] = "start"
    /\ ~held[th] /\ locked
    /\ enabled[th] /\ IFLAG /\ ~irq

\* ----------------------------------------- OnceLock, racing initializers
\* OnceLock::init_once: nothing when is_init(), else try_init_inner
OnceLock_init_once(th) ==
  /\ Running(th)
  /\ CurOp(th) = "init_once" /\ st[th] \in {"start", "init_ret"}
  /\ IF st[th] = "start" /\ status # "INIT"
     THEN /\ Goto(th, ip[th], "init_cas")
          /\ result' = result
     ELSE /\ result' = [result EXCEPT ![th] = Ret("Unit", NoValue)]
          /\ Advance(th)
  /\ UNCHANGED <<execVars, cpuVars, mutexVars, intVars, sleepVars, spurious,
                 idVars, listVars, status, inner, func_runs, state>>

\* callers of the three initializing operations, each with its own value,
\* in tasks and in interrupt handlers
RaceProgs ==
  { <<OnceCall("init_once", 4), Call("get")>>,
    <<OnceCall("try_init_once", 5), Call("yield"), OnceCall("get_or_init", 5)>>,
    <<OnceCall("get_or_init", 6), Call("yield"), OnceCall("try_init_once", 6)>> }

RaceIrqProgs ==
  { <<OnceCall("init_once", 7)>>,
    <<OnceCall("try_init_once", 8)>>,
    <<OnceCall("get_or_init", 9)>> }

InitRace ==
  /\ InitCommon([i \in 1..NumTasks |-> i])
  /\ prog \in [Threads -> RaceProgs \cup {<<>>}]
  /\ prog[IRQ] = <<>>
  /\ \A t \in Tasks : prog[t] \in RaceProgs
  /\ overflow_checks = FALSE
  /\ spurious = 0

NextRace ==
  \/ run_ready_tasks_admit
  \/ run_ready_tasks_pop
  \/ run_ready_tasks_ready
  \/ sleep_if_idle
  \/ IrqEnter(RaceIrqProgs)
  \/ IrqReturn
  \/ \E th \in Threads : yield_now(th)
  \/ \E th \in Threads : OnceLock_try_init_inner(th)
  \/ \E th \in Threads : OnceLock_init_once(th)
  \/ \E th \in Threads : OnceLock_try_init_once(th)
  \/ \E th \in Threads : OnceLock_get_or_init(th)
  \/ \E th \in Threads : OnceLock_get(th)

SpecRace == InitRace /\ [][NextRace]_vars

\* C38: the status only moves UNINIT -> RUNNING -> INIT; at most one init
\* function is executed and the value is written once, by a caller that
\* holds the status at RUNNING; the status is INIT only after that write
C38_InitializedOnce ==
  /\ [](func_runs <= 1)
  /\ [](status = "INIT" => func_runs = 1 /\ inner # NoValue)
  /\ [](status = "UNINIT" => func_runs = 0 /\ inner = NoValue)
  /\ [][ /\ status' # status =>
              \/ status = "UNINIT" /\ status' = "RUNNING"
              \/ status = "RUNNING" /\ status' = "INIT"
         /\ (inner' # inner \/ func_runs' # func_runs) =>
              /\ status = "RUNNING" /\ status' = "RUNNING"
              /\ func_runs = 0 /\ func_runs' = 1 /\ inner' # NoValue
       ]_vars

\* an interrupt handler initialized the cell after a task had found it
\* uninitialized and before the task's exchange: the task's function has
\* not run and will not
C38_Witness ==
  /\ status = "INIT" /\ func_runs = 1 /\ inner \in {7, 8, 9}
  /\ ~irq
  /\ \E t \in Tasks : Running(t) /\ st[t] = "init_cas"

\* C39: a try_init_once that returns Ok(()) has stored the value of its own
\* function; a call that finds the cell taken by another initializer returns
\* Err(AlreadyInitialized)
C39_OkOnlyForOwnValue ==
  [][\A th \in Threads :
       CallReturns(th, "try_init_once") =>
         /\ result'[th] = Ret("Ok", NoValue) => inner' = CurArg(th)
         /\ inner' # CurArg(th) => result'[th] = Ret("Err", NoValue)
    ]_vars

\* ------------------------- the mutex-based OnceLock of src/util/once.rs
\* The cell of the first source tree: an AtomicBool `state`, the value and a
\* Mutex<()>. A reference handed out is recorded with the value it points at
\* when it is returned; NoValue stands for memory not yet written.

\* self.mutex.spin_lock(): try_lock is repeated until the flag is found
\* clear and taken
SpinLockTaken(th) ==
  /\ ~locked
  /\ locked' = TRUE
  /\ live_guards' = live_guards + 1
  /\ held' = [held EXCEPT ![th] = TRUE]
  /\ acquisitions' = acquisitions + (IF th \in Tasks THEN 1 ELSE 0)
  /\ wakeup_list' = wakeup_list

MutexOnceOps == {"try_init_once", "get_or_init"}

\* self.state.store(true, Release), the statement of try_init_once and of
\* get_or_init that precedes the call of try_init_inner
MutexOnceLock_set_state(th) ==
  /\ Running(th)
  /\ CurOp(th) \in MutexOnceOps /\ st[th] = "set"
  /\ state' = TRUE
  /\ Goto(th, ip[th], "spin")
  /\ UNCHANGED <<execVars, cpuVars, mutexVars, intVars, sleepVars, spurious,
                 idVars, listVars, status, inner, func_runs, result>>

\* try_init_inner: take the mutex, write func() into inner, drop the guard
\* (the flag is cleared; notify_one finds no waker, nobody awaits this mutex)
MutexOnceLock_try_init_inner(th) ==
  /\ Running(th)
  /\ CurOp(th) \in MutexOnceOps /\ st[th] \in {"spin", "write", "drop"}
  /\ IF st[th] = "spin"
     THEN /\ IF locked THEN UNCHANGED <<mutexVars, thrVars>>
             ELSE SpinLockTaken(th) /\ Goto(th, ip[th], "write")
          /\ UNCHANGED <<inner, func_runs>>
     ELSE IF st[th] = "write"
     THEN /\ inner' = CurArg(th)
          /\ func_runs' = func_runs + 1
          /\ Goto(th, ip[th], "drop")
          /\ UNCHANGED mutexVars
     ELSE /\ locked' = FALSE
          /\ live_guards' = live_guards - 1
          /\ held' = [held EXCEPT ![th] = FALSE]
          /\ UNCHANGED <<wakeup_list, acquisitions>>
          /\ Goto(th, ip[th], "ret")
          /\ UNCHANGED <<inner, func_runs>>
  /\ UNCHANGED <<execVars, cpuVars, intVars, sleepVars, spurious,
                 idVars, listVars, status, result, state>>

\* try_init_once: Err(AlreadyInitialized) when state is true; else store
\* true, try_init_inner, Ok(())
MutexOnceLock_try_init_once(th) ==
  /\ Running(th)
  /\ CurOp(th) = "try_init_once" /\ st[th] \in {"start", "ret"}
  /\ IF st[th] = "start"
     THEN IF state
          THEN /\ result' = [result EXCEPT ![th] = Ret("Err", NoValue)]
               /\ Advance(th)
          ELSE /\ Goto(th, ip[th], "set")
               /\ result' = result
     ELSE /\ result' = [result EXCEPT ![th] = Ret("Ok", NoValue)]
          /\ Advance(th)
  /\ UNCHANGED <<execVars, cpuVars, mutexVars, intVars, sleepVars, spurious,
                 idVars, listVars, status, inner, func_runs, state>>

\* get_or_init: the reference of try_get when that is Ok; else store true
\* and return the reference try_init_inner returns
MutexOnceLock_get_or_init(th) ==
  /\ Running(th)
  /\ CurOp(th) = "get_or_init" /\ st[th] \in {"start", "ret"}
  /\ IF st[th] = "start" /\ ~state
     THEN /\ Goto(th, ip[th], "set")
          /\ result' = result
     ELSE /\ result' = [result EXCEPT ![th] = Ret("Ref", inner)]
          /\ Advance(th)
  /\ UNCHANGED <<execVars, cpuVars, mutexVars, intVars, sleepVars, spurious,
                 idVars, listVars, status, inner, func_runs, state>>

\* try_get: Ok(get_unchecked()) when state is true, else Err(Uninitialized)
MutexOnceLock_try_get(th) ==
  /\ Running(th)
  /\ CurOp(th) = "try_get"
  /\ result' = [result EXCEPT ![th] =
                  IF state THEN Ret("OkRef", inner) ELSE Ret("Err", NoValue)]
  /\ Advance(th)
  /\ UNCHANGED <<execVars, cpuVars, mutexVars, intVars, sleepVars, spurious,
                 idVars, listVars, status, inner, func_runs, state>>

\* is_init: the state flag
MutexOnceLock_is_init(th) ==
  /\ Running(th)
  /\ CurOp(th) = "is_init"
  /\ result' = [result EXCEPT ![th] =
                  Ret(IF state THEN "true" ELSE "false", NoValue)]
  /\ Advance(th)
  /\ UNCHANGED <<execVars, cpuVars, mutexVars, intVars, sleepVars, spurious,
                 idVars, listVars, status, inner, func_runs, state>>

\* initializers and readers of one cell, in tasks and in interrupt handlers
MutexOnceProgs ==
  { <<OnceCall("get_or_init", 4), Call("try_get")>>,
    <<OnceCall("try_init_once", 5), Call("yield"), Call("is_init")>>,
    <<Call("try_get"), Call("yield"), OnceCall("get_or_init", 6)>> }

MutexOnceIrqProgs ==
  { <<Call("try_get")>>,
    <<Call("is_init")>>,
    <<OnceCall("get_or_init", 9)>> }

\* OnceLock::uninit: state false, no value, the mutex free
InitMutexOnce ==
  /\ InitCommon([i \in 1..NumTasks |-> i])
  /\ prog \in [Threads -> MutexOnceProgs \cup {<<>>}]
  /\ prog[IRQ] = <<>>
  /\ \A t \in Tasks : prog[t] \in MutexOnceProgs
  /\ overflow_checks = FALSE
  /\ spurious = 0

NextMutexOnce ==
  \/ run_ready_tasks_admit
  \/ run_ready_tasks_pop
  \/ run_ready_tasks_ready
  \/ sleep_if_idle
  \/ IrqEnter(MutexOnceIrqProgs)
  \/ IrqReturn
  \/ \E th \in Threads : yield_now(th)
  \/ \E th \in Threads : MutexOnceLock_set_state(th)
  \/ \E th \in Threads : MutexOnceLock_try_init_inner(th)
  \/ \E th \in Threads : MutexOnceLock_try_init_once(th)
  \/ \E th \in Threads : MutexOnceLock_get_or_init(th)
  \/ \E th \in Threads : MutexOnceLock_try_get(th)
  \/ \E th \in Threads : MutexOnceLock_is_init(th)

SpecMutexOnce == InitMutexOnce /\ [][NextMutexOnce]_vars

\* C40: the state flag is true only once the value has been written, so a
\* reference try_get returns points at a written value; and the value is
\* written by one initializer only
C40_StateOnlyAfterWrite ==
  /\ state => inner # NoValue
  /\ \A th \in Threads : result[th].tag = "OkRef" => result[th].val # NoValue
  /\ func_runs <= 1

====
